---- MODULE Spec2Model ----
(***************************************************************************)
(* Import / enrichment merge-and-progress engine of music-db.              *)
(*                                                                         *)
(* One event loop runs HTTP handlers and background job tasks; every       *)
(* action below is one atomic segment of a coroutine, from one await to    *)
(* the next.  Job progress records are the module-level dicts of the       *)
(* three services; the album store is the relational database.             *)
(***************************************************************************)
EXTENDS Integers, Sequences, FiniteSets, TLC

(***************************************************************************)
(* Bounds of the model                                                     *)
(***************************************************************************)
MaxRequests == 2      \* HTTP requests handled in one behaviour
MaxDirs == 2          \* album directories under a scanned root
MaxItems == 1         \* albums listed by the library service
MaxUnits == 52        \* units of the long jobs that fill the error list
MaxCredits == 2       \* entries of a link list given to a merge
MaxTime == 24         \* last reading of the monotonic clock, in tenths of a second

(***************************************************************************)
(* Program constants                                                       *)
(***************************************************************************)
ERROR_LIST_MAX == 50  \* len(error_list) >= 50 triggers the trim
ERROR_LIST_KEEP == 49 \* error_list[-49:]
PAGE_SIZE == 100      \* page_size of the library listing
MB_MIN_INTERVAL == 11 \* _MB_MIN_INTERVAL = 1.1 seconds, in tenths of a second

(***************************************************************************)
(* Optional values: None is the empty tuple, a value v is <<v>>.           *)
(***************************************************************************)
None == <<>>
Some(v) == <<v>>

\* Python truthiness of an optional integer: None and 0 are falsy.
TruthyInt(o) == o # None /\ o[1] # 0

\* Python truthiness of an optional string / bytes: None and "" are falsy.
TruthyStr(o) == o # None /\ o[1] # ""

(***************************************************************************)
(* Text and the ILIKE match used to find an existing album.                *)
(* A text is a tuple of one-character strings.                             *)
(***************************************************************************)
LowerChar(c) == CASE c = "A" -> "a" [] c = "B" -> "b" [] OTHER -> c

LowerText(s) == [n \in 1..Len(s) |-> LowerChar(s[n])]

RECURSIVE LikeMatch(_, _)
LikeMatch(s, p) ==
    IF p = <<>> THEN s = <<>>
    ELSE IF Head(p) = "%"
         THEN LikeMatch(s, Tail(p)) \/ (s # <<>> /\ LikeMatch(Tail(s), p))
         ELSE /\ s # <<>>
              /\ (Head(p) = "_" \/ Head(s) = Head(p))
              /\ LikeMatch(Tail(s), Tail(p))

\* a plausible slip: only the pattern is folded to lower case
ILikeFoldPattern(value, pattern) == LikeMatch(value, LowerText(pattern))

\* column.ilike(pattern): case-insensitive LIKE, "_" and "%" are wildcards
ILike(value, pattern) == LikeMatch(LowerText(value), LowerText(pattern))

(***************************************************************************)
(* Job kinds and progress records                                          *)
(***************************************************************************)
Kinds == {"flac", "roon", "enrich"}

Terminal == {"done", "cancelled", "error"}

IdleJob ==
    [status |-> "idle", total |-> 0, done |-> 0, imported |-> 0,
     updated |-> 0, enriched |-> 0, skipped |-> 0, errors |-> 0,
     error_list |-> <<>>, collection_id |-> None,
     cancel_requested |-> FALSE, current_album |-> None,
     list_id |-> 0]

\* list_id tells the list objects bound to one record's "error_list" apart:
\* a fresh record (old is the record it replaces) has a new, empty list
NewList(j, old) == [j EXCEPT !.list_id = old.list_id + 1]

\* error_list = error_list[-49:] binds a new list; append() does not
Rebound(list, id) == IF Len(list) >= ERROR_LIST_MAX THEN id + 1 ELSE id

\* reset_import_job(): a fresh record in status "starting"
reset_import_job(cid) ==
    [IdleJob EXCEPT !.status = "starting", !.collection_id = cid]

\* the dict literal assigned at the top of run_album_enrichment /
\* run_collection_enrichment
FreshEnrichmentJob(total) ==
    [IdleJob EXCEPT !.status = "running", !.total = total]

\* a plausible slip: the trim keeps 50 messages, so the append makes 51
AppendBoundedLate(list, msg) ==
    IF Len(list) >= ERROR_LIST_MAX
    THEN Append(SubSeq(list, Len(list) - ERROR_LIST_MAX + 1, Len(list)), msg)
    ELSE Append(list, msg)

\* if len(error_list) >= 50: error_list = error_list[-49:]; append(msg)
AppendBounded(list, msg) ==
    IF Len(list) >= ERROR_LIST_MAX
    THEN Append(SubSeq(list, Len(list) - ERROR_LIST_KEEP + 1, Len(list)), msg)
    ELSE Append(list, msg)

(***************************************************************************)
(* State                                                                   *)
(***************************************************************************)
VARIABLES
    job,                \* kind -> progress record (_import_job, _enrichment_job)
    nreq,               \* number of HTTP requests received so far
    inflight,           \* start handlers suspended in their collection lookup
    tasks,              \* background tasks made by asyncio.create_task, in order
    last,               \* kind and outcome of the most recent handler step
    fs,                 \* the scanned root: album directories in sorted order
    library,            \* the library service's album list, in listing order
    albums,             \* albums table, the row id is the index
    record_labels,      \* record_labels table: names, the row id is the index
    collection_albums,  \* collection_albums table: set of <<collection, album>>
    musicians,          \* musicians table: names, the row id is the index
    persons,            \* persons table: names, the row id is the index
    details,            \* details table: names, the row id is the index
    now,                \* time.monotonic(), in tenths of a second
    last_mb_request,    \* importer module -> its global _last_mb_request
    searches,           \* searches sent to the metadata service: who, when
    art_files,          \* ALBUM_ART_DIR: file name -> origin of its content
    snapshots           \* dicts returned by get_progress and still held

\* the three tables of linked entities
catalog == <<musicians, persons, details>>

\* what lies outside the job records and the database
world == <<now, last_mb_request, searches, art_files, snapshots>>

vars == <<job, nreq, inflight, tasks, last, fs, library, albums,
          record_labels, collection_albums, catalog, world>>

\* collections owned by the requesting user
Collections == {1}

NoTask ==
    [kind |-> "none", pc |-> "finished", root_ok |-> FALSE,
     collection_id |-> None, n |-> 0, i |-> 0, existing |-> None,
     album_id |-> 0, has_art |-> FALSE, variant |-> "none", rows |-> <<>>,
     snap |-> None, raw |-> None, upd |-> None, wake |-> 0]

NewTask(kind, root_ok, cid) ==
    [NoTask EXCEPT !.kind = kind, !.pc = "created", !.root_ok = root_ok,
                   !.collection_id = cid]

\* a task that has begun to execute and has not returned
Running(t) == t.pc \notin {"created", "finished"}

TaskIds == 1..Len(tasks)

(***************************************************************************)
(* Album store helpers (services/album.py)                                 *)
(***************************************************************************)
\* get_or_create_record_label: exact-name lookup, insert when absent
LabelId(labels, name) ==
    IF \E n \in 1..Len(labels) : labels[n] = name
    THEN CHOOSE n \in 1..Len(labels) : labels[n] = name
    ELSE Len(labels) + 1

LabelsWith(labels, name) ==
    IF \E n \in 1..Len(labels) : labels[n] = name
    THEN labels
    ELSE Append(labels, name)

\* a plausible slip: the artist column is compared with the title
MatchesTitleTwice(store, title, artist) ==
    {a \in 1..Len(store) : ILike(store[a].title, title)
                           /\ ILike(store[a].artist, title)}

\* select(Album).where(Album.title.ilike(title), Album.artist.ilike(artist))
Matches(store, title, artist) ==
    {a \in 1..Len(store) : ILike(store[a].title, title)
                           /\ ILike(store[a].artist, artist)}

\* _link_to_collection: add the membership row unless it exists
LinkToCollection(rows, cid, album_id) ==
    IF cid = None THEN rows ELSE rows \cup {<<cid[1], album_id>>}

(***************************************************************************)
(* The single-flight check of the three start handlers                     *)
(***************************************************************************)
\* a plausible slip: a job that is only "starting" also counts as running
already_running_starting(k) == job[k].status \in {"starting", "running"}

\* progress = service.get_progress(); progress.get("status") == "running"
already_running(k) == job[k].status = "running"

(***************************************************************************)
(* Filesystem importer: POST /import/flac/start                            *)
(***************************************************************************)
\* the handler's final segment: reset the record and create the task
AcceptFlac(root_ok, cid) ==
    /\ job' = [job EXCEPT !["flac"] = NewList(reset_import_job(cid), job["flac"])]
    /\ tasks' = Append(tasks, NewTask("flac", root_ok, cid))
    /\ last' = [kind |-> "flac", result |-> "accepted"]

\* start_import up to its first await (or to its return).  root is "blank"
\* (empty after strip), "bad" (not a directory) or "ok".
start_import_flac(root, cid) ==
    /\ nreq < MaxRequests
    /\ nreq' = nreq + 1
    /\ UNCHANGED <<fs, library, albums, record_labels, collection_albums,
                   catalog, world>>
    /\ IF root = "blank"
       THEN /\ last' = [kind |-> "flac", result |-> "bad_request"]
            /\ UNCHANGED <<job, tasks, inflight>>
       ELSE IF already_running("flac")
       THEN /\ last' = [kind |-> "flac", result |-> "already_running"]
            /\ UNCHANGED <<job, tasks, inflight>>
       ELSE IF cid # None
       THEN /\ inflight' = inflight \cup
                    {[id |-> nreq + 1, kind |-> "flac",
                      root_ok |-> (root = "ok"), collection_id |-> cid]}
            /\ last' = [kind |-> "flac", result |-> "pending"]
            /\ UNCHANGED <<job, tasks>>
       ELSE /\ AcceptFlac(root = "ok", cid)
            /\ UNCHANGED inflight

\* start_import resumed after the collection lookup
start_import_flac_lookup(h) ==
    /\ h \in inflight
    /\ h.kind = "flac"
    /\ inflight' = inflight \ {h}
    /\ UNCHANGED <<nreq, fs, library, albums, record_labels, collection_albums,
                   catalog, world>>
    /\ IF h.collection_id[1] \in Collections
       THEN AcceptFlac(h.root_ok, h.collection_id)
       ELSE /\ last' = [kind |-> "flac", result |-> "not_found"]
            /\ UNCHANGED <<job, tasks>>

\* POST /import/flac/cancel, /import/roon/cancel, /enrichment/cancel
cancel(k) ==
    /\ nreq < MaxRequests
    /\ nreq' = nreq + 1
    /\ job' = [job EXCEPT ![k].cancel_requested = TRUE]
    /\ last' = [kind |-> k, result |-> "cancel_requested"]
    /\ UNCHANGED <<inflight, tasks, fs, library, albums, record_labels,
                   collection_albums,
                   catalog, world>>

\* get_progress(): dict(_import_job) / dict(_enrichment_job).  The copy has
\* its own scalar fields; its "error_list" is the list object the record
\* holds at this moment (list_id), not a copy of it
get_progress(k) ==
    /\ nreq < MaxRequests
    /\ nreq' = nreq + 1
    /\ snapshots' = snapshots \cup {[kind |-> k, copy |-> job[k]]}
    /\ last' = [kind |-> k, result |-> "progress"]
    /\ UNCHANGED <<job, inflight, tasks, fs, library, albums, record_labels,
                   collection_albums, catalog, now, last_mb_request, searches,
                   art_files>>

(***************************************************************************)
(* Filesystem importer: run_import                                         *)
(***************************************************************************)
\* the unit a task is processing: a directory or a library item
Unit(t) == IF t.kind = "flac" THEN fs[t.i] ELSE library[t.i]

\* a plausible slip: the status is set but the return is missing
LoopHeadNoReturn(j, t) ==
    IF t.i > t.n
    THEN <<[j EXCEPT !.status = "done"], [t EXCEPT !.pc = "finished"]>>
    ELSE IF j.cancel_requested
    THEN <<[j EXCEPT !.status = "cancelled"], [t EXCEPT !.pc = "scan"]>>
    ELSE <<j, [t EXCEPT !.pc = "scan"]>>

\* the top of the per-unit loop: loop exhausted, cancelled, or yield
LoopHead(j, t) ==
    IF t.i > t.n
    THEN <<[j EXCEPT !.status = "done"], [t EXCEPT !.pc = "finished"]>>
    ELSE IF j.cancel_requested
    THEN <<[j EXCEPT !.status = "cancelled"], [t EXCEPT !.pc = "finished"]>>
    ELSE <<j, [t EXCEPT !.pc = "scan"]>>

\* a plausible slip: the unit ends without done += 1
EndUnitUncounted(j, t) ==
    LoopHead(j,
             [t EXCEPT !.i = @ + 1, !.existing = None, !.album_id = 0,
                       !.has_art = FALSE, !.snap = None, !.upd = None])

\* finally: done += 1, then the next iteration's loop head
EndUnit(j, t) ==
    LoopHead([j EXCEPT !.done = @ + 1],
             [t EXCEPT !.i = @ + 1, !.existing = None, !.album_id = 0,
                       !.has_art = FALSE, !.snap = None, !.upd = None])

\* a plausible slip: the handler of a unit's exception ends the job
FailUnitAbort(j, t) ==
    <<[j EXCEPT !.errors = @ + 1, !.done = @ + 1, !.status = "error",
                !.error_list = AppendBounded(@, <<"unit", t.i>>),
                !.list_id = Rebound(j.error_list, @)],
      [t EXCEPT !.pc = "finished"]>>

\* except Exception: errors += 1 and the bounded append, then finally
FailUnit(j, t) ==
    EndUnit([j EXCEPT !.errors = @ + 1,
                      !.error_list = AppendBounded(@, <<"unit", t.i>>),
                      !.list_id = Rebound(j.error_list, @)], t)

SetJobTask(k, id, jt) ==
    /\ job' = [job EXCEPT ![k] = jt[1]]
    /\ tasks' = [tasks EXCEPT ![id] = jt[2]]

\* run_import from its start to the await on _find_album_dirs
flac_start(id) ==
    /\ id \in TaskIds
    /\ tasks[id].kind = "flac"
    /\ tasks[id].pc = "created"
    /\ IF ~tasks[id].root_ok
       THEN SetJobTask("flac", id,
                <<[job["flac"] EXCEPT !.status = "error",
                       !.error_list = Append(@, <<"Directory not found", 0>>)],
                  [tasks[id] EXCEPT !.pc = "finished"]>>)
       ELSE SetJobTask("flac", id,
                <<[job["flac"] EXCEPT !.status = "running"],
                  [tasks[id] EXCEPT !.pc = "discover"]>>)
    /\ UNCHANGED <<nreq, inflight, last, fs, library, albums, record_labels,
                   collection_albums,
                   catalog, world>>

\* phase 1 done: total = len(album_dirs), then the first loop head
flac_discover(id) ==
    /\ id \in TaskIds
    /\ tasks[id].kind = "flac"
    /\ tasks[id].pc = "discover"
    /\ SetJobTask("flac", id,
           LoopHead([job["flac"] EXCEPT !.total = Len(fs)],
                    [tasks[id] EXCEPT !.n = Len(fs), !.i = 1]))
    /\ UNCHANGED <<nreq, inflight, last, fs, library, albums, record_labels,
                   collection_albums,
                   catalog, world>>

\* _scan_album_dir returned (or raised) for the current directory
flac_scan(id) ==
    /\ id \in TaskIds
    /\ tasks[id].kind = "flac"
    /\ tasks[id].pc = "scan"
    /\ LET d == fs[tasks[id].i] IN
       IF d.fault = "scan"
       THEN SetJobTask("flac", id, FailUnit(job["flac"], tasks[id]))
       ELSE IF d.fault = "none_data"
       THEN SetJobTask("flac", id,
                EndUnit([job["flac"] EXCEPT !.skipped = @ + 1], tasks[id]))
       ELSE /\ tasks' = [tasks EXCEPT ![id].pc = "find"]
            /\ UNCHANGED job
    /\ UNCHANGED <<nreq, inflight, last, fs, library, albums, record_labels,
                   collection_albums,
                   catalog, world>>

\* the select for an existing album returned: scalar_one_or_none
find_existing(k, id) ==
    /\ id \in TaskIds
    /\ tasks[id].kind = k
    /\ tasks[id].pc = "find"
    /\ LET d == Unit(tasks[id])
           m == Matches(albums, d.title, d.artist)
       IN IF Cardinality(m) > 1
          THEN SetJobTask(k, id, FailUnit(job[k], tasks[id]))
          ELSE /\ tasks' = [tasks EXCEPT ![id].pc = "write",
                     ![id].existing =
                        IF m = {} THEN None
                        ELSE LET a == CHOOSE x \in m : TRUE IN
                             Some([id |-> a,
                                   release_year |-> albums[a].release_year,
                                   record_label_id |-> albums[a].record_label_id,
                                   art_path |-> albums[a].art_path])]
               /\ UNCHANGED job
    /\ UNCHANGED <<nreq, inflight, last, fs, library, albums, record_labels,
                   collection_albums,
                   catalog, world>>

\* a plausible slip: an empty track list does not replace the stored one
UpdatedAlbumKeepTracks(row, e, d, labels) ==
    [row EXCEPT
        !.tracks = IF d.tracks # <<>> THEN d.tracks ELSE @,
        !.release_year =
            IF TruthyInt(d.release_year) /\ ~TruthyInt(e.release_year)
            THEN d.release_year ELSE @,
        !.record_label_id =
            IF TruthyStr(d.record_label) /\ ~TruthyInt(e.record_label_id)
            THEN Some(LabelId(labels, d.record_label[1])) ELSE @,
        !.art_path =
            IF TruthyStr(d.image_bytes) /\ ~TruthyStr(e.art_path)
            THEN Some("jpg") ELSE @]

\* the update branch of the upsert, applied to the row loaded by the select
UpdatedAlbum(row, e, d, labels) ==
    [row EXCEPT
        !.tracks = d.tracks,
        !.release_year =
            IF TruthyInt(d.release_year) /\ ~TruthyInt(e.release_year)
            THEN d.release_year ELSE @,
        !.record_label_id =
            IF TruthyStr(d.record_label) /\ ~TruthyInt(e.record_label_id)
            THEN Some(LabelId(labels, d.record_label[1])) ELSE @,
        !.art_path =
            IF TruthyStr(d.image_bytes) /\ ~TruthyStr(e.art_path)
            THEN Some("jpg") ELSE @]

\* create_album(AlbumCreate(...)) followed by the art write of the importer
CreatedAlbum(d, labels) ==
    [title |-> d.title, artist |-> d.artist,
     release_year |-> d.release_year, producer |-> None,
     record_label_id |->
        IF TruthyStr(d.record_label)
        THEN Some(LabelId(labels, d.record_label[1])) ELSE None,
     tracks |-> d.tracks,
     art_path |-> IF TruthyStr(d.image_bytes) THEN Some("jpg") ELSE None,
     musicians |-> <<>>, personnel |-> <<>>, other_details |-> <<>>]

\* _link_to_collection raises for unit d of task t: the album write is
\* committed by then, the counter of the outcome is not yet incremented
LinkFails(d, t) == d.fault = "link" /\ t.collection_id # None

\* (ALBUM_ART_DIR / f"{album_id}.{ext}").write_bytes(...): the file is
\* created or overwritten; content names where the bytes came from
WriteFile(files, album_id, ext, content) ==
    {f \in files : ~(f.album_id = album_id /\ f.ext = ext)}
        \cup {[album_id |-> album_id, ext |-> ext, content |-> content]}

\* the session block of one unit: update or create, link, count
flac_write(id) ==
    /\ id \in TaskIds
    /\ tasks[id].kind = "flac"
    /\ tasks[id].pc = "write"
    /\ UNCHANGED <<nreq, inflight, last, fs, library, catalog, now,
                   last_mb_request, searches, snapshots>>
    /\ LET t == tasks[id]
           d == fs[t.i]
           j == job["flac"]
       IN IF d.fault = "store"
          THEN /\ SetJobTask("flac", id, FailUnit(j, t))
               /\ UNCHANGED <<albums, record_labels, collection_albums,
                              art_files>>
          ELSE IF t.existing # None
          THEN LET e == t.existing[1]
                   fillLabel == TruthyStr(d.record_label)
                                /\ ~TruthyInt(e.record_label_id)
                   fillArt == TruthyStr(d.image_bytes) /\ ~TruthyStr(e.art_path)
               IN /\ albums' = [albums EXCEPT ![e.id] =
                                   UpdatedAlbum(@, e, d, record_labels)]
                  /\ art_files' =
                        IF fillArt
                        THEN WriteFile(art_files, e.id, "jpg", "embedded")
                        ELSE art_files
                  /\ record_labels' =
                        IF fillLabel
                        THEN LabelsWith(record_labels, d.record_label[1])
                        ELSE record_labels
                  /\ collection_albums' =
                        IF LinkFails(d, t) THEN collection_albums
                        ELSE LinkToCollection(collection_albums,
                                              t.collection_id, e.id)
                  /\ SetJobTask("flac", id,
                        IF LinkFails(d, t) THEN FailUnit(j, t)
                        ELSE
                        <<[j EXCEPT !.updated = @ + 1],
                          [t EXCEPT !.pc = "post", !.album_id = e.id,
                              !.has_art = fillArt \/ TruthyStr(e.art_path)]>>)
          ELSE LET a == Len(albums) + 1 IN
               /\ albums' = Append(albums, CreatedAlbum(d, record_labels))
               /\ art_files' =
                     IF TruthyStr(d.image_bytes)
                     THEN WriteFile(art_files, a, "jpg", "embedded")
                     ELSE art_files
               /\ record_labels' =
                     IF TruthyStr(d.record_label)
                     THEN LabelsWith(record_labels, d.record_label[1])
                     ELSE record_labels
               /\ collection_albums' =
                     IF LinkFails(d, t) THEN collection_albums
                     ELSE LinkToCollection(collection_albums,
                                           t.collection_id, a)
               /\ SetJobTask("flac", id,
                     IF LinkFails(d, t) THEN FailUnit(j, t)
                     ELSE
                     <<[j EXCEPT !.imported = @ + 1],
                       [t EXCEPT !.pc = "post", !.album_id = a,
                           !.has_art = TruthyStr(d.image_bytes)]>>)

\* after the session block: art fallback when no art, else the unit ends
after_upsert(k, id) ==
    /\ id \in TaskIds
    /\ tasks[id].kind = k
    /\ tasks[id].pc = "post"
    /\ IF tasks[id].has_art
       THEN SetJobTask(k, id, EndUnit(job[k], tasks[id]))
       ELSE /\ tasks' = [tasks EXCEPT ![id].pc = "mb"]
            /\ UNCHANGED job
    /\ UNCHANGED <<nreq, inflight, last, fs, library, albums, record_labels,
                   collection_albums,
                   catalog, world>>

\* _mb_art_fallback returned: art downloaded and recorded, or nothing found
mb_art_fallback(k, id, found) ==
    /\ id \in TaskIds
    /\ tasks[id].kind = k
    /\ tasks[id].pc = "mb"
    /\ albums' = IF found
                 THEN [albums EXCEPT ![tasks[id].album_id].art_path = Some("jpg")]
                 ELSE albums
    /\ art_files' = IF found
                    THEN WriteFile(art_files, tasks[id].album_id, "jpg", "mb")
                    ELSE art_files
    /\ SetJobTask(k, id, EndUnit(job[k], tasks[id]))
    /\ UNCHANGED <<nreq, inflight, last, fs, library, record_labels, collection_albums,
                   catalog, now, last_mb_request, searches, snapshots>>

(***************************************************************************)
(* _mb_art_fallback one await at a time, the cover upload and the manual   *)
(* search                                                                  *)
(***************************************************************************)
\* _last_mb_request = time.monotonic(), then search_releases sends its GET
SendSearch(k, id) ==
    /\ last_mb_request' = [last_mb_request EXCEPT ![k] = now]
    /\ searches' = Append(searches, [by |-> k, at |-> now])
    /\ tasks' = [tasks EXCEPT ![id].pc = "mb_search", ![id].wake = 0]

\* elapsed = time.monotonic() - _last_mb_request of the task's own module;
\* sleep for the rest of the interval, or go on at once
mb_wait(k, id) ==
    /\ id \in TaskIds
    /\ tasks[id].kind = k
    /\ tasks[id].pc = "mb"
    /\ LET elapsed == now - last_mb_request[k] IN
       IF elapsed < MB_MIN_INTERVAL
       THEN /\ tasks' = [tasks EXCEPT ![id].pc = "mb_sleep",
                            ![id].wake = now + (MB_MIN_INTERVAL - elapsed)]
            /\ UNCHANGED <<last_mb_request, searches>>
       ELSE SendSearch(k, id)
    /\ UNCHANGED <<job, nreq, inflight, last, fs, library, albums,
                   record_labels, collection_albums, catalog, now, art_files,
                   snapshots>>

\* asyncio.sleep returned
mb_send(k, id) ==
    /\ id \in TaskIds
    /\ tasks[id].kind = k
    /\ tasks[id].pc = "mb_sleep"
    /\ now >= tasks[id].wake
    /\ SendSearch(k, id)
    /\ UNCHANGED <<job, nreq, inflight, last, fs, library, albums,
                   record_labels, collection_albums, catalog, now, art_files,
                   snapshots>>

\* a plausible slip: a search that raises fails the unit
mb_search_hard(k, id, res) ==
    /\ id \in TaskIds
    /\ tasks[id].kind = k
    /\ tasks[id].pc = "mb_search"
    /\ IF res = "found"
       THEN /\ tasks' = [tasks EXCEPT ![id].pc = "mb_download"]
            /\ UNCHANGED job
       ELSE IF res = "raise"
       THEN SetJobTask(k, id, FailUnit(job[k], tasks[id]))
       ELSE SetJobTask(k, id, EndUnit(job[k], tasks[id]))
    /\ UNCHANGED <<nreq, inflight, last, fs, library, albums, record_labels,
                   collection_albums, catalog, world>>

\* search_releases returned a candidate with an mbid ("found"), returned
\* none ("none") or raised ("raise"); only "found" goes on to the download
mb_search(k, id, res) ==
    /\ id \in TaskIds
    /\ tasks[id].kind = k
    /\ tasks[id].pc = "mb_search"
    /\ IF res = "found"
       THEN /\ tasks' = [tasks EXCEPT ![id].pc = "mb_download"]
            /\ UNCHANGED job
       ELSE SetJobTask(k, id, EndUnit(job[k], tasks[id]))
    /\ UNCHANGED <<nreq, inflight, last, fs, library, albums, record_labels,
                   collection_albums, catalog, world>>

\* download_cover_art: "ok" writes {album_id}.jpg and returns True, "404"
\* and "transport" return False
mb_download(k, id, res) ==
    /\ id \in TaskIds
    /\ tasks[id].kind = k
    /\ tasks[id].pc = "mb_download"
    /\ IF res = "ok"
       THEN /\ art_files' = WriteFile(art_files, tasks[id].album_id, "jpg", "mb")
            /\ tasks' = [tasks EXCEPT ![id].pc = "mb_commit"]
            /\ UNCHANGED job
       ELSE /\ SetJobTask(k, id, EndUnit(job[k], tasks[id]))
            /\ UNCHANGED art_files
    /\ UNCHANGED <<nreq, inflight, last, fs, library, albums, record_labels,
                   collection_albums, catalog, now, last_mb_request, searches,
                   snapshots>>

\* the session block: select the row, db_row.art_path = art_filename,
\* commit; fails says the block raised, which the except clause swallows
mb_commit(k, id, fails) ==
    /\ id \in TaskIds
    /\ tasks[id].kind = k
    /\ tasks[id].pc = "mb_commit"
    /\ albums' = IF fails
                 THEN albums
                 ELSE [albums EXCEPT ![tasks[id].album_id].art_path = Some("jpg")]
    /\ SetJobTask(k, id, EndUnit(job[k], tasks[id]))
    /\ UNCHANGED <<nreq, inflight, last, fs, library, record_labels,
                   collection_albums, catalog, world>>

\* POST /albums/{album_id}/art with an image of the given type: "jpg" and
\* "png" are allowed types, "bmp" is not
upload_art(album_id, ext) ==
    /\ nreq < MaxRequests
    /\ nreq' = nreq + 1
    /\ IF ext \notin {"jpg", "png"}
       THEN /\ last' = [kind |-> "art", result |-> "bad_request"]
            /\ UNCHANGED <<albums, art_files>>
       ELSE IF album_id \notin 1..Len(albums)
       THEN /\ last' = [kind |-> "art", result |-> "not_found"]
            /\ UNCHANGED <<albums, art_files>>
       ELSE LET old == albums[album_id].art_path
                written == WriteFile(art_files, album_id, ext, "upload")
            IN /\ art_files' =
                     IF TruthyStr(old) /\ old[1] # ext
                     THEN {f \in written :
                             ~(f.album_id = album_id /\ f.ext = old[1])}
                     ELSE written
               /\ albums' = [albums EXCEPT ![album_id].art_path = Some(ext)]
               /\ last' = [kind |-> "art", result |-> "uploaded",
                           album_id |-> album_id, ext |-> ext]
    /\ UNCHANGED <<job, inflight, tasks, fs, library, record_labels,
                   collection_albums, catalog, now, last_mb_request, searches,
                   snapshots>>

\* GET /musicbrainz/search: search_releases is called at once
search(res) ==
    /\ nreq < MaxRequests
    /\ nreq' = nreq + 1
    /\ searches' = Append(searches, [by |-> "manual", at |-> now])
    /\ last' = [kind |-> "search",
                result |-> IF res = "raise" THEN "bad_gateway" ELSE "ok"]
    /\ UNCHANGED <<job, inflight, tasks, fs, library, albums, record_labels,
                   collection_albums, catalog, now, last_mb_request, art_files,
                   snapshots>>

\* the monotonic clock advances by d tenths of a second
Tick(d) ==
    /\ now + d <= MaxTime
    /\ now' = now + d
    /\ UNCHANGED <<job, nreq, inflight, tasks, last, fs, library, albums,
                   record_labels, collection_albums, catalog, last_mb_request,
                   searches, art_files, snapshots>>

(***************************************************************************)
(* Library importer: POST /import/roon/start                               *)
(***************************************************************************)
\* The handler's final segment.  reset_import_job runs, then the call
\* run_import(AsyncSessionLocal, collection_id=..., auto_enrich=...) raises
\* TypeError, because run_import declares only (session_factory,
\* collection_id): create_task is never reached and the request fails.
AcceptRoon(cid) ==
    /\ job' = [job EXCEPT !["roon"] = NewList(reset_import_job(cid), job["roon"])]
    /\ last' = [kind |-> "roon", result |-> "server_error"]
    /\ UNCHANGED tasks

start_import_roon(authorized, cid) ==
    /\ nreq < MaxRequests
    /\ nreq' = nreq + 1
    /\ UNCHANGED <<fs, library, albums, record_labels, collection_albums,
                   catalog, world>>
    /\ IF ~authorized
       THEN /\ last' = [kind |-> "roon", result |-> "not_authorized"]
            /\ UNCHANGED <<job, tasks, inflight>>
       ELSE IF already_running("roon")
       THEN /\ last' = [kind |-> "roon", result |-> "already_running"]
            /\ UNCHANGED <<job, tasks, inflight>>
       ELSE IF cid # None
       THEN /\ inflight' = inflight \cup
                    {[id |-> nreq + 1, kind |-> "roon", root_ok |-> TRUE,
                      collection_id |-> cid]}
            /\ last' = [kind |-> "roon", result |-> "pending"]
            /\ UNCHANGED <<job, tasks>>
       ELSE /\ AcceptRoon(cid)
            /\ UNCHANGED inflight

start_import_roon_lookup(h) ==
    /\ h \in inflight
    /\ h.kind = "roon"
    /\ inflight' = inflight \ {h}
    /\ UNCHANGED <<nreq, fs, library, albums, record_labels, collection_albums,
                   catalog, world>>
    /\ IF h.collection_id[1] \in Collections
       THEN AcceptRoon(h.collection_id)
       ELSE /\ last' = [kind |-> "roon", result |-> "not_found"]
            /\ UNCHANGED <<job, tasks>>

(***************************************************************************)
(* Library importer: run_import                                            *)
(***************************************************************************)
\* run_import(session_factory, collection_id) scheduled as a task with the
\* arguments it declares, after reset_import_job.  connected says whether
\* the library client holds a token when the task starts.
run_import_roon(connected, cid) ==
    /\ nreq < MaxRequests
    /\ nreq' = nreq + 1
    /\ job' = [job EXCEPT !["roon"] = NewList(reset_import_job(cid), job["roon"])]
    /\ tasks' = Append(tasks, NewTask("roon", connected, cid))
    /\ last' = [kind |-> "roon", result |-> "scheduled"]
    /\ UNCHANGED <<inflight, fs, library, albums, record_labels,
                   collection_albums,
                   catalog, world>>

\* top of the listing loop: cancelled, or load the next page
PageHead(j, t) ==
    IF j.cancel_requested
    THEN <<[j EXCEPT !.status = "cancelled"], [t EXCEPT !.pc = "finished"]>>
    ELSE <<j, [t EXCEPT !.pc = "page"]>>

\* run_import from its start to the await on the first page
roon_start(id) ==
    /\ id \in TaskIds
    /\ tasks[id].kind = "roon"
    /\ tasks[id].pc = "created"
    /\ IF ~tasks[id].root_ok
       THEN SetJobTask("roon", id,
                <<[job["roon"] EXCEPT !.status = "error",
                       !.error_list = Append(@, <<"Not connected", 0>>)],
                  [tasks[id] EXCEPT !.pc = "finished"]>>)
       ELSE SetJobTask("roon", id,
                PageHead([job["roon"] EXCEPT !.status = "running"],
                         tasks[id]))
    /\ UNCHANGED <<nreq, inflight, last, fs, library, albums, record_labels,
                   collection_albums,
                   catalog, world>>

\* a plausible slip: the total the service reported is kept as the total
roon_load_page_reported(id, count) ==
    /\ id \in TaskIds
    /\ tasks[id].kind = "roon"
    /\ tasks[id].pc = "page"
    /\ LET t == tasks[id]
           last_item == IF t.n + PAGE_SIZE < Len(library)
                        THEN t.n + PAGE_SIZE ELSE Len(library)
           items == SubSeq(library, t.n + 1, last_item)
           j == IF t.n = 0 /\ count # 0
                THEN [job["roon"] EXCEPT !.total = count] ELSE job["roon"]
           listed == t.n + Len(items)
       IN IF Len(items) < PAGE_SIZE
          THEN SetJobTask("roon", id,
                   LoopHead([j EXCEPT !.total = IF @ # 0 THEN @ ELSE listed],
                            [t EXCEPT !.n = listed, !.i = 1]))
          ELSE SetJobTask("roon", id, PageHead(j, [t EXCEPT !.n = listed]))
    /\ UNCHANGED <<nreq, inflight, last, fs, library, albums, record_labels,
                   collection_albums,
                   catalog, world>>

\* _sync_load_page returned the page at offset t.n; count is the total the
\* service reports with the first page
roon_load_page(id, count) ==
    /\ id \in TaskIds
    /\ tasks[id].kind = "roon"
    /\ tasks[id].pc = "page"
    /\ LET t == tasks[id]
           last_item == IF t.n + PAGE_SIZE < Len(library)
                        THEN t.n + PAGE_SIZE ELSE Len(library)
           items == SubSeq(library, t.n + 1, last_item)
           j == IF t.n = 0 /\ count # 0
                THEN [job["roon"] EXCEPT !.total = count] ELSE job["roon"]
           listed == t.n + Len(items)
       IN IF Len(items) < PAGE_SIZE
          THEN SetJobTask("roon", id,
                   LoopHead([j EXCEPT !.total = listed],
                            [t EXCEPT !.n = listed, !.i = 1]))
          ELSE SetJobTask("roon", id, PageHead(j, [t EXCEPT !.n = listed]))
    /\ UNCHANGED <<nreq, inflight, last, fs, library, albums, record_labels,
                   collection_albums,
                   catalog, world>>

\* after sleep(0): an item without title or item_key is skipped; otherwise
\* _sync_fetch_detail returned (or raised)
roon_detail(id) ==
    /\ id \in TaskIds
    /\ tasks[id].kind = "roon"
    /\ tasks[id].pc = "scan"
    /\ LET d == library[tasks[id].i] IN
       IF d.title = <<>> \/ ~d.item_key
       THEN SetJobTask("roon", id,
                EndUnit([job["roon"] EXCEPT !.skipped = @ + 1], tasks[id]))
       ELSE IF d.fault = "scan"
       THEN SetJobTask("roon", id, FailUnit(job["roon"], tasks[id]))
       ELSE /\ tasks' = [tasks EXCEPT ![id].pc = "find"]
            /\ UNCHANGED job
    /\ UNCHANGED <<nreq, inflight, last, fs, library, albums, record_labels,
                   collection_albums,
                   catalog, world>>

\* the update branch of the library importer: tracks, and art if absent
RoonUpdatedAlbum(row, e, d) ==
    [row EXCEPT
        !.tracks = d.tracks,
        !.art_path =
            IF TruthyStr(d.image_bytes) /\ ~TruthyStr(e.art_path)
            THEN Some("jpg") ELSE @]

\* create_album(AlbumCreate(title, artist, tracks)) followed by the art write
RoonCreatedAlbum(d) ==
    [title |-> d.title, artist |-> d.artist, release_year |-> None,
     producer |-> None, record_label_id |-> None, tracks |-> d.tracks,
     art_path |-> IF TruthyStr(d.image_bytes) THEN Some("jpg") ELSE None,
     musicians |-> <<>>, personnel |-> <<>>, other_details |-> <<>>]

\* the session block of one library item: update or create, link, count
roon_write(id) ==
    /\ id \in TaskIds
    /\ tasks[id].kind = "roon"
    /\ tasks[id].pc = "write"
    /\ UNCHANGED <<nreq, inflight, last, fs, library, record_labels,
                   catalog, now, last_mb_request, searches, snapshots>>
    /\ LET t == tasks[id]
           d == library[t.i]
           j == job["roon"]
       IN IF d.fault = "store"
          THEN /\ SetJobTask("roon", id, FailUnit(j, t))
               /\ UNCHANGED <<albums, collection_albums, art_files>>
          ELSE IF t.existing # None
          THEN LET e == t.existing[1]
                   fillArt == TruthyStr(d.image_bytes) /\ ~TruthyStr(e.art_path)
               IN /\ albums' = [albums EXCEPT ![e.id] =
                                   RoonUpdatedAlbum(@, e, d)]
                  /\ art_files' =
                        IF fillArt
                        THEN WriteFile(art_files, e.id, "jpg", "embedded")
                        ELSE art_files
                  /\ collection_albums' =
                        IF LinkFails(d, t) THEN collection_albums
                        ELSE LinkToCollection(collection_albums,
                                              t.collection_id, e.id)
                  /\ SetJobTask("roon", id,
                        IF LinkFails(d, t) THEN FailUnit(j, t)
                        ELSE
                        <<[j EXCEPT !.updated = @ + 1],
                          [t EXCEPT !.pc = "post", !.album_id = e.id,
                              !.has_art = fillArt \/ TruthyStr(e.art_path)]>>)
          ELSE LET a == Len(albums) + 1 IN
               /\ albums' = Append(albums, RoonCreatedAlbum(d))
               /\ art_files' =
                     IF TruthyStr(d.image_bytes)
                     THEN WriteFile(art_files, a, "jpg", "embedded")
                     ELSE art_files
               /\ collection_albums' =
                     IF LinkFails(d, t) THEN collection_albums
                     ELSE LinkToCollection(collection_albums,
                                           t.collection_id, a)
               /\ SetJobTask("roon", id,
                     IF LinkFails(d, t) THEN FailUnit(j, t)
                     ELSE
                     <<[j EXCEPT !.imported = @ + 1],
                       [t EXCEPT !.pc = "post", !.album_id = a,
                           !.has_art = TruthyStr(d.image_bytes)]>>)

(***************************************************************************)
(* Enrichment: POST /enrichment/album/{id}, /enrichment/collection/{id}    *)
(***************************************************************************)
\* enrich_album (route): the check and create_task run without an await
enrich_album_route(album_id) ==
    /\ nreq < MaxRequests
    /\ nreq' = nreq + 1
    /\ UNCHANGED <<job, inflight, fs, library, albums, record_labels, collection_albums,
                   catalog, world>>
    /\ IF already_running("enrich")
       THEN /\ last' = [kind |-> "enrich", result |-> "already_running"]
            /\ UNCHANGED tasks
       ELSE /\ tasks' = Append(tasks,
                  [NewTask("enrich", TRUE, None) EXCEPT
                      !.variant = "album", !.album_id = album_id])
            /\ last' = [kind |-> "enrich", result |-> "accepted"]

\* enrich_collection (route) up to the await on the collection lookup
enrich_collection_route(cid) ==
    /\ nreq < MaxRequests
    /\ nreq' = nreq + 1
    /\ UNCHANGED <<job, tasks, fs, library, albums, record_labels, collection_albums,
                   catalog, world>>
    /\ IF already_running("enrich")
       THEN /\ last' = [kind |-> "enrich", result |-> "already_running"]
            /\ UNCHANGED inflight
       ELSE /\ inflight' = inflight \cup
                    {[id |-> nreq + 1, kind |-> "enrich", root_ok |-> TRUE,
                      collection_id |-> Some(cid)]}
            /\ last' = [kind |-> "enrich", result |-> "pending"]

\* enrich_collection (route) resumed after the lookup
enrich_collection_lookup(h) ==
    /\ h \in inflight
    /\ h.kind = "enrich"
    /\ inflight' = inflight \ {h}
    /\ UNCHANGED <<job, nreq, fs, library, albums, record_labels, collection_albums,
                   catalog, world>>
    /\ IF h.collection_id[1] \in Collections
       THEN /\ tasks' = Append(tasks,
                  [NewTask("enrich", TRUE, h.collection_id) EXCEPT
                      !.variant = "collection"])
            /\ last' = [kind |-> "enrich", result |-> "accepted"]
       ELSE /\ last' = [kind |-> "enrich", result |-> "not_found"]
            /\ UNCHANGED tasks

(***************************************************************************)
(* Enrichment service (services/enrichment.py)                             *)
(***************************************************************************)
\* str.lower() on the names and qualifiers the model uses
LowerStr(s) ==
    CASE s = "Bonham" -> "bonham"
      [] s = "Drums" -> "drums"
      [] s = "Page" -> "page"
      [] s = "Guitar" -> "guitar"
      [] OTHER -> s

RECURSIVE MergeMusiciansLoop(_, _, _)
MergeMusiciansLoop(merged, names, new) ==
    IF new = <<>> THEN merged
    ELSE LET m == Head(new) IN
         IF LowerStr(m.name) \notin names
         THEN MergeMusiciansLoop(Append(merged, m),
                                 names \cup {LowerStr(m.name)}, Tail(new))
         ELSE MergeMusiciansLoop(merged, names, Tail(new))

\* a plausible slip: the names already linked are not lower-cased
merge_musicians_exact(existing, new) ==
    MergeMusiciansLoop(existing,
        {existing[n].name : n \in 1..Len(existing)}, new)

\* _merge_musicians: dedup by lower-cased musician_name only
merge_musicians(existing, new) ==
    MergeMusiciansLoop(existing,
        {LowerStr(existing[n].name) : n \in 1..Len(existing)}, new)

PairKey(e) == <<LowerStr(e.name), LowerStr(e.qualifier)>>

RECURSIVE MergePairsLoop(_, _, _)
MergePairsLoop(merged, keys, new) ==
    IF new = <<>> THEN merged
    ELSE LET p == Head(new) IN
         IF PairKey(p) \notin keys
         THEN MergePairsLoop(Append(merged, p), keys \cup {PairKey(p)},
                             Tail(new))
         ELSE MergePairsLoop(merged, keys, Tail(new))

\* a plausible slip: the key is the name alone, as for musicians
merge_personnel_by_name(existing, new) ==
    MergeMusiciansLoop(existing,
        {LowerStr(existing[n].name) : n \in 1..Len(existing)}, new)

\* _merge_personnel: dedup by lower-cased (person_name, role)
merge_personnel(existing, new) ==
    MergePairsLoop(existing, {PairKey(existing[n]) : n \in 1..Len(existing)},
                   new)

\* _merge_details: dedup by lower-cased (detail_name, detail_type)
merge_details(existing, new) ==
    MergePairsLoop(existing, {PairKey(existing[n]) : n \in 1..Len(existing)},
                   new)

\* the AlbumUpdate built by enrich_album from the loaded album and the
\* model's output:  producer = (raw["producer"] or None) if not
\* album.producer else None
EnrichmentUpdate(snap, raw) ==
    [producer |-> IF ~TruthyStr(snap.producer)
                  THEN (IF raw.producer # "" THEN Some(raw.producer) ELSE None)
                  ELSE None,
     musicians |-> Some(merge_musicians(snap.musicians, raw.musicians)),
     personnel |-> Some(merge_personnel(snap.personnel, raw.personnel)),
     other_details |->
        Some(merge_details(snap.other_details, raw.other_details))]

\* two inputs resolve to the same (album, entity, qualifier) primary key
HasDuplicate(list) ==
    \E m, n \in 1..Len(list) : m < n /\ list[m] = list[n]

\* update_album raises (IntegrityError at flush) and rolls back
UpdateRaises(upd) ==
    \/ upd.musicians # None /\ HasDuplicate(upd.musicians[1])
    \/ upd.personnel # None /\ HasDuplicate(upd.personnel[1])
    \/ upd.other_details # None /\ HasDuplicate(upd.other_details[1])

\* get_or_create_musician / _person / _detail: select the row whose name
\* equals the given one (Musician.name == name), insert one when absent
get_or_create(table, name) ==
    IF \E n \in 1..Len(table) : table[n] = name
    THEN table
    ELSE Append(table, name)

\* the loop of _set_*_links over the inputs: one get_or_create per input
RECURSIVE CreateAll(_, _)
CreateAll(table, inputs) ==
    IF inputs = <<>> THEN table
    ELSE CreateAll(get_or_create(table, Head(inputs).name), Tail(inputs))

\* the entity tables after update_album committed (raised: rolled back)
set_links_entities(upd) ==
    IF UpdateRaises(upd)
    THEN UNCHANGED catalog
    ELSE /\ musicians' = IF upd.musicians # None
                         THEN CreateAll(musicians, upd.musicians[1])
                         ELSE musicians
         /\ persons' = IF upd.personnel # None
                       THEN CreateAll(persons, upd.personnel[1])
                       ELSE persons
         /\ details' = IF upd.other_details # None
                       THEN CreateAll(details, upd.other_details[1])
                       ELSE details

\* update_album: set producer when given, replace each link set when given
update_album(row, upd) ==
    [row EXCEPT
        !.producer = IF upd.producer # None THEN upd.producer ELSE @,
        !.musicians = IF upd.musicians # None THEN upd.musicians[1] ELSE @,
        !.personnel = IF upd.personnel # None THEN upd.personnel[1] ELSE @,
        !.other_details =
            IF upd.other_details # None THEN upd.other_details[1] ELSE @]

\* PATCH /albums/{album_id}: a manual edit, one transaction
update_album_route(a, upd) ==
    /\ nreq < MaxRequests
    /\ nreq' = nreq + 1
    /\ a \in 1..Len(albums)
    /\ albums' = IF UpdateRaises(upd) THEN albums
                 ELSE [albums EXCEPT ![a] = update_album(@, upd)]
    /\ set_links_entities(upd)
    /\ last' = [kind |-> "album",
                result |-> IF UpdateRaises(upd) THEN "server_error"
                           ELSE "updated",
                album_id |-> a, body |-> upd]
    /\ UNCHANGED <<job, inflight, tasks, fs, library, record_labels,
                   collection_albums, world>>

(***************************************************************************)
(* POST /collections/{collection_id}/albums/{album_id}                     *)
(***************************************************************************)
\* a plausible slip: the select for an existing membership row is missing
already_member_unchecked(rows, cid, album_id) == FALSE

\* existing.scalar_one_or_none() is not None
already_member(rows, cid, album_id) == <<cid, album_id>> \in rows

\* add_album_to_collection up to the await of its commit (or to its
\* return): the collection, the album and the membership row are looked up
add_album_to_collection(cid, album_id) ==
    /\ nreq < MaxRequests
    /\ nreq' = nreq + 1
    /\ UNCHANGED <<job, tasks, fs, library, albums, record_labels,
                   collection_albums, catalog, world>>
    /\ LET answer(result) ==
              [kind |-> "member", result |-> result, collection_id |-> cid,
               album_id |-> album_id]
       IN IF cid \notin Collections \/ album_id \notin 1..Len(albums)
          THEN /\ last' = answer("not_found")
               /\ UNCHANGED inflight
          ELSE IF already_member(collection_albums, cid, album_id)
          THEN /\ last' = answer("added")
               /\ UNCHANGED inflight
          ELSE /\ last' = answer("pending")
               /\ inflight' = inflight \cup
                     {[id |-> nreq + 1, kind |-> "member", root_ok |-> TRUE,
                       collection_id |-> Some(cid), album_id |-> album_id]}

\* DELETE /collections/{collection_id}/albums/{album_id}
remove_album_from_collection(cid, album_id) ==
    /\ nreq < MaxRequests
    /\ nreq' = nreq + 1
    /\ LET found == cid \in Collections /\ <<cid, album_id>> \in collection_albums
       IN /\ collection_albums' =
                IF found THEN collection_albums \ {<<cid, album_id>>}
                ELSE collection_albums
          /\ last' = [kind |-> "member",
                      result |-> IF found THEN "removed" ELSE "not_found",
                      collection_id |-> cid, album_id |-> album_id]
    /\ UNCHANGED <<job, inflight, tasks, fs, library, albums, record_labels,
                   catalog, world>>

\* add_album_to_collection: the commit of the new row returned; it raises
\* when the row was inserted meanwhile (the primary key is the pair)
add_album_commit(h) ==
    /\ h \in inflight
    /\ h.kind = "member"
    /\ inflight' = inflight \ {h}
    /\ LET row == <<h.collection_id[1], h.album_id>> IN
       /\ collection_albums' = collection_albums \cup {row}
       /\ last' = [kind |-> "member",
                   result |-> IF row \in collection_albums
                              THEN "server_error" ELSE "added",
                   collection_id |-> h.collection_id[1],
                   album_id |-> h.album_id]
    /\ UNCHANGED <<job, nreq, tasks, fs, library, albums, record_labels,
                   catalog, world>>

\* byte order of the characters used in titles (ORDER BY Album.title)
CharRank(c) ==
    CASE c = "%" -> 37 [] c = "A" -> 65 [] c = "B" -> 66 [] c = "_" -> 95
      [] c = "a" -> 97 [] c = "b" -> 98 [] OTHER -> 127

RECURSIVE TextLess(_, _)
TextLess(s, t) ==
    IF t = <<>> THEN FALSE
    ELSE IF s = <<>> THEN TRUE
    ELSE IF CharRank(Head(s)) # CharRank(Head(t))
         THEN CharRank(Head(s)) < CharRank(Head(t))
         ELSE TextLess(Tail(s), Tail(t))

RECURSIVE SortedByTitle(_, _)
SortedByTitle(store, ids) ==
    IF ids = {} THEN <<>>
    ELSE LET first == CHOOSE a \in ids : \A b \in ids \ {a} :
                         \/ TextLess(store[a].title, store[b].title)
                         \/ (store[a].title = store[b].title /\ a < b)
         IN <<first>> \o SortedByTitle(store, ids \ {first})

\* the rows read at the start of run_collection_enrichment
CollectionRows(store, rows, cid) ==
    SortedByTitle(store, {a \in 1..Len(store) : <<cid, a>> \in rows})

\* top of the loop of run_collection_enrichment
EnrichLoopHead(j, t) ==
    IF t.i > t.n
    THEN <<[j EXCEPT !.current_album = None, !.status = "done"],
           [t EXCEPT !.pc = "finished"]>>
    ELSE IF j.cancel_requested
    THEN <<[j EXCEPT !.status = "cancelled"], [t EXCEPT !.pc = "finished"]>>
    ELSE <<j, [t EXCEPT !.pc = "unit"]>>

\* the counters after enrich_album returned True ("enriched"), returned
\* False ("skipped") or raised ("error")
Counted(j, outcome, msg, bounded) ==
    CASE outcome = "enriched" -> [j EXCEPT !.enriched = @ + 1]
      [] outcome = "skipped" -> [j EXCEPT !.skipped = @ + 1]
      [] OTHER -> [j EXCEPT !.errors = @ + 1,
                      !.error_list = IF bounded THEN AppendBounded(@, msg)
                                     ELSE Append(@, msg),
                      !.list_id = IF bounded THEN Rebound(j.error_list, @)
                                  ELSE @]

\* what follows enrich_album in either background task, up to the next await
AfterEnrich(j, t, outcome) ==
    IF t.variant = "album"
    THEN LET c == Counted(j, outcome, <<"album", t.album_id>>, FALSE) IN
         <<[c EXCEPT !.done = 1, !.current_album = None,
                     !.status = IF @ = "running" THEN "done" ELSE @],
           [t EXCEPT !.pc = "finished", !.snap = None, !.raw = None,
                     !.upd = None]>>
    ELSE LET c == Counted(j, outcome, <<"unit", t.i>>, TRUE) IN
         EnrichLoopHead([c EXCEPT !.done = @ + 1],
                        [t EXCEPT !.i = @ + 1, !.snap = None, !.raw = None,
                                  !.upd = None])

EnrichTask(id, pc) ==
    /\ id \in TaskIds
    /\ tasks[id].kind = "enrich"
    /\ tasks[id].pc = pc

\* run_album_enrichment / run_collection_enrichment: the fresh record
enrichment_start(id) ==
    /\ EnrichTask(id, "created")
    /\ IF tasks[id].variant = "album"
       THEN SetJobTask("enrich", id,
                <<NewList(FreshEnrichmentJob(1), job["enrich"]),
                  [tasks[id] EXCEPT !.pc = "label"]>>)
       ELSE SetJobTask("enrich", id,
                <<NewList(FreshEnrichmentJob(0), job["enrich"]),
                  [tasks[id] EXCEPT !.pc = "rows"]>>)
    /\ UNCHANGED <<nreq, inflight, last, fs, library, albums, record_labels,
                   collection_albums,
                   catalog, world>>

\* run_album_enrichment: the label of the album, then enrich_album is called
album_label(id) ==
    /\ EnrichTask(id, "label")
    /\ SetJobTask("enrich", id,
           <<[job["enrich"] EXCEPT !.current_album = Some(tasks[id].album_id)],
             [tasks[id] EXCEPT !.pc = "load"]>>)
    /\ UNCHANGED <<nreq, inflight, last, fs, library, albums, record_labels,
                   collection_albums,
                   catalog, world>>

\* run_collection_enrichment: the rows fix total, then the first loop head
collection_rows(id) ==
    /\ EnrichTask(id, "rows")
    /\ LET rows == CollectionRows(albums, collection_albums,
                                  tasks[id].collection_id[1])
       IN SetJobTask("enrich", id,
              EnrichLoopHead([job["enrich"] EXCEPT !.total = Len(rows)],
                  [tasks[id] EXCEPT !.rows = rows, !.n = Len(rows), !.i = 1]))
    /\ UNCHANGED <<nreq, inflight, last, fs, library, albums, record_labels,
                   collection_albums,
                   catalog, world>>

\* a plausible slip: the total is counted again at every unit
collection_unit_recount(id) ==
    /\ EnrichTask(id, "unit")
    /\ LET a == tasks[id].rows[tasks[id].i]
           members == {x \in 1..Len(albums) :
                         <<tasks[id].collection_id[1], x>> \in collection_albums}
       IN SetJobTask("enrich", id,
              <<[job["enrich"] EXCEPT !.current_album = Some(a),
                                      !.total = Cardinality(members)],
                [tasks[id] EXCEPT !.pc = "load", !.album_id = a]>>)
    /\ UNCHANGED <<nreq, inflight, last, fs, library, albums, record_labels,
                   collection_albums,
                   catalog, world>>

\* run_collection_enrichment after sleep(0): label, then enrich_album
collection_unit(id) ==
    /\ EnrichTask(id, "unit")
    /\ LET a == tasks[id].rows[tasks[id].i] IN
       SetJobTask("enrich", id,
           <<[job["enrich"] EXCEPT !.current_album = Some(a)],
             [tasks[id] EXCEPT !.pc = "load", !.album_id = a]>>)
    /\ UNCHANGED <<nreq, inflight, last, fs, library, albums, record_labels,
                   collection_albums,
                   catalog, world>>

\* enrich_album: get_album_full returned
enrich_load(id) ==
    /\ EnrichTask(id, "load")
    /\ LET a == tasks[id].album_id IN
       IF a \notin 1..Len(albums)
       THEN SetJobTask("enrich", id,
                AfterEnrich(job["enrich"], tasks[id], "skipped"))
       ELSE /\ tasks' = [tasks EXCEPT ![id].pc = "claude",
                  ![id].snap = Some([producer |-> albums[a].producer,
                                     musicians |-> albums[a].musicians,
                                     personnel |-> albums[a].personnel,
                                     other_details |-> albums[a].other_details])]
            /\ UNCHANGED job
    /\ UNCHANGED <<nreq, inflight, last, fs, library, albums, record_labels,
                   collection_albums,
                   catalog, world>>

\* enrich_album: _call_claude returned raw, an empty result, or raised
enrich_claude(id, raw) ==
    /\ EnrichTask(id, "claude")
    /\ IF raw.kind = "raise"
       THEN SetJobTask("enrich", id,
                AfterEnrich(job["enrich"], tasks[id], "error"))
       ELSE IF raw.kind = "empty"
       THEN SetJobTask("enrich", id,
                AfterEnrich(job["enrich"], tasks[id], "skipped"))
       ELSE /\ tasks' = [tasks EXCEPT ![id].pc = "update",
                  ![id].raw = Some(raw),
                  ![id].upd = Some(EnrichmentUpdate(tasks[id].snap[1], raw))]
            /\ UNCHANGED job
    /\ UNCHANGED <<nreq, inflight, last, fs, library, albums, record_labels,
                   collection_albums,
                   catalog, world>>

\* enrich_album: update_album committed (or raised), return True
enrich_update(id) ==
    /\ EnrichTask(id, "update")
    /\ LET a == tasks[id].album_id
           upd == tasks[id].upd[1]
       IN IF UpdateRaises(upd)
          THEN /\ SetJobTask("enrich", id,
                      AfterEnrich(job["enrich"], tasks[id], "error"))
               /\ UNCHANGED albums
          ELSE /\ albums' = [albums EXCEPT ![a] = update_album(@, upd)]
               /\ SetJobTask("enrich", id,
                      AfterEnrich(job["enrich"], tasks[id], "enriched"))
    /\ set_links_entities(tasks[id].upd[1])
    /\ UNCHANGED <<nreq, inflight, last, fs, library, record_labels,
                   collection_albums, world>>

(***************************************************************************)
(* Inputs                                                                  *)
(***************************************************************************)
\* what _scan_album_dir yields for one directory, and where (if anywhere)
\* processing it raises: "scan" (the scan raises), "none_data" (the scan
\* returns None), "store" (the session block raises before its commit),
\* "link" (the collection link raises after the album's commit)
PlainDir ==
    [fault |-> "ok", title |-> <<"a">>, artist |-> <<"b">>,
     release_year |-> None, record_label |-> None, tracks |-> <<"t1">>,
     image_bytes |-> None]

\* one entry of the library's album list with what _sync_fetch_detail
\* yields for it; item_key is FALSE for an action item without a key
PlainItem ==
    [fault |-> "ok", title |-> <<"a">>, artist |-> <<"b">>,
     tracks |-> <<"t3">>, image_bytes |-> Some("img"), item_key |-> TRUE]

\* all sequences over S of length at most n
RECURSIVE SeqsUpTo(_, _)
SeqsUpTo(S, n) ==
    IF n = 0 THEN {<<>>}
    ELSE LET shorter == SeqsUpTo(S, n - 1) IN
         shorter \cup {Append(q, x) : q \in {r \in shorter : Len(r) = n - 1},
                                      x \in S}

\* an album already in the catalog, member of collection 1
StoredAlbum ==
    [title |-> <<"b">>, artist |-> <<"b">>, release_year |-> None,
     producer |-> None, record_label_id |-> None, tracks |-> <<>>,
     art_path |-> None, musicians |-> <<>>, personnel |-> <<>>,
     other_details |-> <<>>]

\* outputs of the language-model call: raised, nothing, or credits
NoRaw ==
    [kind |-> "empty", producer |-> "", musicians |-> <<>>,
     personnel |-> <<>>, other_details |-> <<>>]

Entry(name, q) == [name |-> name, qualifier |-> q]

RaceRaws ==
    {[NoRaw EXCEPT !.kind = "raise"], NoRaw,
     [NoRaw EXCEPT !.kind = "data", !.producer = "Y",
                   !.musicians = <<Entry("bonham", "drums")>>]}

(***************************************************************************)
(* The steps of the environment and of the tasks                           *)
(***************************************************************************)
InitControl ==
    /\ job = [k \in Kinds |-> IdleJob]
    /\ nreq = 0
    /\ inflight = {}
    /\ tasks = <<>>
    /\ last = [kind |-> "none", result |-> "none"]
    /\ now = MB_MIN_INTERVAL
    /\ last_mb_request = [k \in {"flac", "roon"} |-> 0]
    /\ searches = <<>>
    /\ art_files = {}
    /\ snapshots = {}

\* no accepted start of kind k is still on its way to its task's first step
Quiescent(k) ==
    /\ \A h \in inflight : h.kind # k
    /\ \A id \in TaskIds : tasks[id].kind = k => tasks[id].pc # "created"

\* no handler is suspended and every task has returned
Idle ==
    /\ inflight = {}
    /\ \A id \in TaskIds : tasks[id].pc = "finished"

StartFlac(seq) ==
    /\ seq => Quiescent("flac")
    /\ \E root \in {"blank", "bad", "ok"}, cid \in {None, Some(1), Some(2)} :
          start_import_flac(root, cid)

StartRoon(seq) ==
    /\ seq => Quiescent("roon")
    /\ \E authorized \in BOOLEAN, cid \in {None, Some(1), Some(2)} :
          start_import_roon(authorized, cid)

StartEnrichAlbum(seq) ==
    /\ seq => Quiescent("enrich")
    /\ \E a \in {1, 9} : enrich_album_route(a)

StartEnrichCollection(seq) ==
    /\ seq => Quiescent("enrich")
    /\ \E cid \in {1, 2} : enrich_collection_route(cid)

Lookup ==
    \E h \in inflight :
        \/ start_import_flac_lookup(h)
        \/ start_import_roon_lookup(h)
        \/ enrich_collection_lookup(h)

Cancel(K) == \E k \in K : cancel(k)

FlacStep ==
    \E id \in TaskIds :
        \/ flac_start(id)
        \/ flac_discover(id)
        \/ flac_scan(id)
        \/ find_existing("flac", id)
        \/ flac_write(id)
        \/ after_upsert("flac", id)
        \/ \E found \in BOOLEAN : mb_art_fallback("flac", id, found)

\* the total the library service reports with the first page: none, the
\* number of items it then lists, or one more
ReportedCounts == {0, Len(library), Len(library) + 1}

RoonStep ==
    \E id \in TaskIds :
        \/ roon_start(id)
        \/ \E count \in ReportedCounts : roon_load_page(id, count)
        \/ roon_detail(id)
        \/ find_existing("roon", id)
        \/ roon_write(id)
        \/ after_upsert("roon", id)
        \/ \E found \in BOOLEAN : mb_art_fallback("roon", id, found)

\* the steps of an enrichment task other than the language-model call
EnrichOther(id) ==
    \/ enrichment_start(id)
    \/ album_label(id)
    \/ collection_rows(id)
    \/ collection_unit(id)
    \/ enrich_load(id)
    \/ enrich_update(id)

\* raws is the set of outcomes the language-model call can have
EnrichStep(raws) ==
    \E id \in TaskIds :
        \/ EnrichOther(id)
        \/ \E raw \in raws : enrich_claude(id, raw)

(***************************************************************************)
(* Spec: every interleaving of the start handlers, the cancel handlers and *)
(* the tasks                                                               *)
(***************************************************************************)
Init ==
    /\ InitControl
    /\ fs = <<PlainDir>>
    /\ library = <<>>
    /\ albums = <<StoredAlbum>>
    /\ record_labels = <<>>
    /\ musicians = <<>>
    /\ persons = <<>>
    /\ details = <<>>
    /\ collection_albums = {<<1, 1>>}

Next ==
    \/ StartFlac(FALSE)
    \/ StartRoon(FALSE)
    \/ StartEnrichAlbum(FALSE)
    \/ StartEnrichCollection(FALSE)
    \/ Lookup
    \/ Cancel(Kinds)
    \/ FlacStep
    \/ EnrichStep(RaceRaws)

Spec == Init /\ [][Next]_vars

(***************************************************************************)
(* SpecSeq: filesystem imports whose start requests the client issues one  *)
(* after the other (a start is handled only when no earlier accepted start *)
(* is still on its way to its task's first step), with cancel requests at  *)
(* any moment                                                              *)
(***************************************************************************)
RaceDirs ==
    {PlainDir, [PlainDir EXCEPT !.fault = "scan"],
     [PlainDir EXCEPT !.image_bytes = Some("img")]}

InitSeq ==
    /\ InitControl
    /\ fs \in SeqsUpTo(RaceDirs, MaxDirs)
    /\ library = <<>>
    /\ albums = <<StoredAlbum>>
    /\ record_labels = <<>>
    /\ musicians = <<>>
    /\ persons = <<>>
    /\ details = <<>>
    /\ collection_albums = {<<1, 1>>}

NextSeq ==
    \/ StartFlac(TRUE)
    \/ Lookup
    \/ Cancel({"flac"})
    \/ FlacStep

SpecSeq == InitSeq /\ [][NextSeq]_vars

(***************************************************************************)
(* Single flight                                                           *)
(***************************************************************************)
\* C1: at most one task of a given kind is executing at any time: no two
\* distinct background tasks of the same kind have both begun and not
\* yet returned.
C1_SingleFlight ==
    \A a, b \in TaskIds :
        (a # b /\ tasks[a].kind = tasks[b].kind)
            => ~(Running(tasks[a]) /\ Running(tasks[b]))

\* C2: a start request of kind k that passes the checks made before the
\* single-flight check is answered "already running" exactly when kind k's
\* own record has status "running" (whatever the other kinds' records
\* say), and such a rejection creates no task and leaves every record as
\* it was.
C2_RejectedIffOwnRunning ==
    [][\A k \in Kinds :
          (nreq' = nreq + 1 /\ last'.kind = k
           /\ last'.result \in {"accepted", "pending", "already_running",
                                "server_error"})
          => /\ (last'.result = "already_running") <=> (job[k].status = "running")
             /\ (last'.result = "already_running")
                   => (job' = job /\ tasks' = tasks /\ inflight' = inflight)
      ]_vars

\* a flac start was rejected while flac is running and another kind's
\* record is not running
C2_Witness ==
    /\ last = [kind |-> "flac", result |-> "already_running"]
    /\ job["flac"].status = "running"
    /\ job["enrich"].status # "running"

(***************************************************************************)
(* Cancellation of a filesystem import                                     *)
(***************************************************************************)
\* every unit among the first k that was processed without a fault has
\* its album in the store
ProcessedKept(store, k) ==
    \A n \in 1..k :
        fs[n].fault = "ok" => Matches(store, fs[n].title, fs[n].artist) # {}

\* C3: when a filesystem import reaches the cancellation check of unit
\* k+1 (k < N) with cancellation requested, its status becomes
\* "cancelled", done equals k, the task returns (and a returned task never
\* acts again, so no later unit is scanned or written), and the albums of
\* the k processed units are in the store.
C3_CancelAfterK ==
    [][\A id \in TaskIds :
          /\ (/\ tasks[id].kind = "flac"
              /\ tasks'[id].i # tasks[id].i
              /\ tasks'[id].i <= tasks'[id].n
              /\ job["flac"].cancel_requested)
             => /\ job'["flac"].status = "cancelled"
                /\ job'["flac"].done = tasks'[id].i - 1
                /\ tasks'[id].pc = "finished"
                /\ ProcessedKept(albums', tasks'[id].i - 1)
          /\ tasks[id].pc = "finished" => tasks'[id] = tasks[id]
      ]_vars

\* an import over two directories was cancelled after its first unit
C3_Witness ==
    /\ job["flac"].status = "cancelled"
    /\ job["flac"].total = 2
    /\ job["flac"].done = 1
    /\ job["flac"].imported = 1
    /\ Len(albums) = 2

(***************************************************************************)
(* SpecStore: import passes into an empty catalog, one after the other,    *)
(* each into collection 1, over a root and a library that do not change    *)
(***************************************************************************)
\* a directory tagged title "A", artist "B", date 1999, with embedded art
SceneDir ==
    [fault |-> "ok", title |-> <<"A">>, artist |-> <<"B">>,
     release_year |-> Some(1999), record_label |-> None,
     tracks |-> <<"t1">>, image_bytes |-> Some("img")]

StoreDirs ==
    {SceneDir,
     \* same album in lower case, date "0000", a label, no audio titles
     [SceneDir EXCEPT !.title = <<"a">>, !.release_year = Some(0),
                      !.record_label = Some("L"), !.tracks = <<>>,
                      !.image_bytes = None],
     \* an album whose title is the one-character wildcard of LIKE
     [SceneDir EXCEPT !.title = <<"_">>, !.release_year = None,
                      !.tracks = <<"t2">>, !.image_bytes = None],
     \* a directory whose scan raises
     [SceneDir EXCEPT !.fault = "scan"]}

StoreItems ==
    {[PlainItem EXCEPT !.artist = <<"B">>],
     [PlainItem EXCEPT !.artist = <<"B">>, !.tracks = <<>>,
                       !.image_bytes = None],
     [PlainItem EXCEPT !.item_key = FALSE]}

InitStore ==
    /\ InitControl
    /\ fs \in SeqsUpTo(StoreDirs, MaxDirs)
    /\ library \in SeqsUpTo(StoreItems, MaxItems)
    /\ albums = <<>>
    /\ record_labels = <<>>
    /\ musicians = <<>>
    /\ persons = <<>>
    /\ details = <<>>
    /\ collection_albums = {}

StartFlacPass == Idle /\ start_import_flac("ok", Some(1))

StartRoonPass == Idle /\ run_import_roon(TRUE, Some(1))

NextStore ==
    \/ StartFlacPass
    \/ StartRoonPass
    \/ Lookup
    \/ FlacStep
    \/ RoonStep

SpecStore == InitStore /\ [][NextStore]_vars

(***************************************************************************)
(* What an import pass does to the album store                             *)
(***************************************************************************)
ImportKinds == {"flac", "roon"}

\* task id takes a step that is part of writing a matched album
UpdateStep(id) ==
    /\ tasks[id].kind \in ImportKinds
    /\ tasks[id].pc = "write"
    /\ tasks[id].existing # None
    /\ tasks'[id].pc = "post"

\* C5: fill-once.  When an import unit is written onto the album it
\* matched, a stored release_year, record label or art_path that is not
\* null keeps its value, and a null one takes the value the unit carries
\* (the library importer carries art only).
C5_FillOnce ==
    [][\A id \in TaskIds :
          UpdateStep(id) =>
            LET a == tasks[id].existing[1].id
                d == Unit(tasks[id])
                flac == tasks[id].kind = "flac"
            IN /\ albums[a].release_year # None
                    => albums'[a].release_year = albums[a].release_year
               /\ albums[a].record_label_id # None
                    => albums'[a].record_label_id = albums[a].record_label_id
               /\ albums[a].art_path # None
                    => albums'[a].art_path = albums[a].art_path
               /\ (flac /\ albums[a].release_year = None
                        /\ d.release_year # None)
                    => albums'[a].release_year = d.release_year
               /\ (flac /\ albums[a].record_label_id = None
                        /\ d.record_label # None)
                    => albums'[a].record_label_id # None
               /\ (albums[a].art_path = None /\ d.image_bytes # None)
                    => albums'[a].art_path # None
      ]_vars

\* C6: from the step that writes a unit onto the album it matched until
\* the unit ends, the album's stored tracks are the unit's tracks, also
\* when the unit has none.
C6_TracksReplaced ==
    [][\A id \in TaskIds :
          (/\ tasks[id].kind \in ImportKinds
           /\ tasks[id].pc \in {"write", "post", "mb"}
           /\ tasks[id].existing # None
           /\ tasks'[id] # tasks[id]
           /\ job'[tasks[id].kind].errors = job[tasks[id].kind].errors)
          => /\ albums'[tasks[id].existing[1].id].tracks
                    = Unit(tasks[id]).tracks
             /\ UpdateStep(id)
                    => job'[tasks[id].kind].updated
                          = job[tasks[id].kind].updated + 1
      ]_vars

\* the album created from a directory with one track was matched by a
\* directory without tracks and now has none
C6_Witness ==
    /\ Len(fs) = 2
    /\ fs[1] = SceneDir
    /\ fs[2].tracks = <<>>
    /\ Len(tasks) = 1
    /\ tasks[1].kind = "flac"
    /\ tasks[1].i = 2
    /\ tasks[1].pc = "post"
    /\ tasks[1].existing # None
    /\ albums[1].tracks = <<>>

\* task id is a pass of a kind of which an earlier pass has been made
Repeated(id) == \E p \in 1..(id - 1) : tasks[p].kind = tasks[id].kind

Source(k) == IF k = "flac" THEN fs ELSE library

\* C7 (as amended): a repeated pass over the unchanged source creates no
\* album, no collection-membership row and no link row and counts no unit
\* as imported; every pass ends with status "done" and done == total ==
\* the number of units of the source.
C7_Reimport ==
    [][\A id \in TaskIds :
          LET k == tasks[id].kind IN
          /\ (k \in ImportKinds /\ Repeated(id) /\ tasks'[id] # tasks[id])
             => /\ Len(albums') = Len(albums)
                /\ collection_albums' = collection_albums
                /\ \A a \in 1..Len(albums) :
                      /\ albums'[a].musicians = albums[a].musicians
                      /\ albums'[a].personnel = albums[a].personnel
                      /\ albums'[a].other_details = albums[a].other_details
                /\ job'[k].imported = 0
          /\ (k \in ImportKinds /\ tasks[id].pc # "finished"
              /\ tasks'[id].pc = "finished")
             => /\ job'[k].status = "done"
                /\ job'[k].done = job'[k].total
                /\ job'[k].total = Len(Source(k))
      ]_vars

\* a second filesystem pass over two directories has ended and counted
\* both as updated
C7_Witness ==
    /\ Len(tasks) = 2
    /\ tasks[1].kind = "flac"
    /\ tasks[2].kind = "flac"
    /\ tasks[2].pc = "finished"
    /\ job["flac"].status = "done"
    /\ job["flac"].total = 2
    /\ job["flac"].updated = 2
    /\ collection_albums # {}

\* C7 as stated: when a repeated pass has ended, every unit of the source
\* has been counted as updated.
C7_AllUpdated ==
    \A id \in TaskIds :
        (tasks[id].kind \in ImportKinds /\ Repeated(id) /\ id = Len(tasks)
         /\ tasks[id].pc = "finished")
        => job[tasks[id].kind].updated = job[tasks[id].kind].total

\* the first pass is a filesystem import over two directories tagged "A"
\* by "B", dated 1999, with embedded art, and it has ended
SceneEnded ==
    /\ fs = <<SceneDir, SceneDir>>
    /\ Len(tasks) = 1
    /\ tasks[1].kind = "flac"
    /\ tasks[1].pc = "finished"

SoundUnits == {0, 1, MaxUnits}

\* an album the language-model service answers for
KnownAlbum == [StoredAlbum EXCEPT !.title = <<"a">>]

InitErrors ==
    /\ InitControl
    /\ \E g \in SoundUnits :
          /\ fs = [n \in 1..MaxUnits |->
                     IF n = g THEN PlainDir
                     ELSE [PlainDir EXCEPT !.fault = "scan"]]
          /\ library = [n \in 1..MaxUnits |->
                          IF n = g THEN PlainItem
                          ELSE [PlainItem EXCEPT !.fault = "scan"]]
          /\ albums = [n \in 1..MaxUnits |->
                         IF n = g THEN KnownAlbum ELSE StoredAlbum]
    /\ record_labels = <<>>
    /\ musicians = <<>>
    /\ persons = <<>>
    /\ details = <<>>
    /\ collection_albums = {<<1, n>> : n \in 1..MaxUnits}

\* the language-model call raises for every album but KnownAlbum
ClaudeFor(id) ==
    IF albums[tasks[id].album_id].title = KnownAlbum.title
    THEN {[NoRaw EXCEPT !.kind = "data", !.producer = "Y"]}
    ELSE {[NoRaw EXCEPT !.kind = "raise"]}

StartFlacJob == Idle /\ \E root \in {"bad", "ok"} : start_import_flac(root, None)

StartRoonJob == Idle /\ \E connected \in BOOLEAN : run_import_roon(connected, None)

StartCollectionJob == Idle /\ enrich_collection_route(1)

EnrichStepErrors ==
    \E id \in TaskIds :
        \/ EnrichOther(id)
        \/ /\ EnrichTask(id, "claude")
           /\ \E raw \in ClaudeFor(id) : enrich_claude(id, raw)

NextErrors ==
    \/ StartFlacJob
    \/ StartRoonJob
    \/ StartCollectionJob
    \/ Lookup
    \/ FlacStep
    \/ RoonStep
    \/ EnrichStepErrors

SpecErrors == InitErrors /\ [][NextErrors]_vars

\* the last n elements of s
LastN(s, n) == IF Len(s) <= n THEN s ELSE SubSeq(s, Len(s) - n + 1, Len(s))

\* the task the record of kind k belongs to: the latest that has begun
JobTask(k) ==
    CHOOSE id \in TaskIds :
        /\ tasks[id].kind = k
        /\ tasks[id].pc # "created"
        /\ \A later \in (id + 1)..Len(tasks) :
              tasks[later].kind = k => tasks[later].pc = "created"

\* unit n of the current job of kind k is one that fails
UnitFails(k, n) ==
    CASE k = "flac" -> fs[n].fault # "ok"
      [] k = "roon" -> library[n].fault # "ok"
      [] OTHER -> albums[tasks[JobTask(k)].rows[n]].title # KnownAlbum.title

\* the messages of the failures among the first upto units, oldest first
FailedUnits(k, upto) ==
    LET Fails(n) == UnitFails(k, n)
        idx == SelectSeq([n \in 1..upto |-> n], Fails)
    IN [m \in 1..Len(idx) |-> <<"unit", idx[m]>>]

NoUpdate ==
    [producer |-> None, musicians |-> None, personnel |-> None,
     other_details |-> None]

\* bodies of PATCH /albums/1
ManualUpdates ==
    {[NoUpdate EXCEPT !.producer = Some("")],
     [NoUpdate EXCEPT !.producer = Some("Z")],
     [NoUpdate EXCEPT !.musicians = Some(<<Entry("Jones", "Bass")>>)],
     \* a musician whose name differs in case from a linked one
     [NoUpdate EXCEPT !.musicians = Some(<<Entry("page", "Guitar")>>)],
     \* the same musician and instrument named twice
     [NoUpdate EXCEPT !.musicians =
         Some(<<Entry("Jones", "Bass"), Entry("Jones", "Bass")>>)],
     [NoUpdate EXCEPT !.personnel = Some(<<Entry("Kramer", "Engineer")>>)]}

EnrichRaws ==
    {[NoRaw EXCEPT !.kind = "raise"], NoRaw,
     \* the tool input with an empty producer and empty arrays
     [NoRaw EXCEPT !.kind = "data"],
     [NoRaw EXCEPT !.kind = "data", !.producer = "Y",
                   !.musicians = <<Entry("Bonham", "Drums")>>],
     [NoRaw EXCEPT !.kind = "data",
                   !.musicians = <<Entry("page", "guitar")>>,
                   !.other_details = <<Entry("Olympic", "studio")>>]}

InitEnrich ==
    /\ InitControl
    /\ fs = <<>>
    /\ library = <<>>
    /\ \E p \in {None, Some("X")},
          m \in {<<>>, <<Entry("Page", "Guitar")>>} :
          /\ albums = <<[StoredAlbum EXCEPT !.producer = p, !.musicians = m]>>
          /\ musicians = [n \in 1..Len(m) |-> m[n].name]
    /\ record_labels = <<>>
    /\ persons = <<>>
    /\ details = <<>>
    /\ collection_albums = {<<1, 1>>}

ManualUpdate == \E upd \in ManualUpdates : update_album_route(1, upd)

NextEnrich ==
    \/ StartEnrichAlbum(TRUE)
    \/ StartEnrichCollection(TRUE)
    \/ Lookup
    \/ ManualUpdate
    \/ EnrichStep(EnrichRaws)

SpecEnrich == InitEnrich /\ [][NextEnrich]_vars

\* task id takes the step in which enrich_album's update_album commits
EnrichWrite(id) ==
    /\ tasks[id].kind = "enrich"
    /\ tasks[id].pc = "update"
    /\ tasks'[id].pc # "update"

\* C9: when the album's producer was not null at enrich_album's load (and
\* nobody changed it since), it is the same after enrich_album's write;
\* when it was null and the model returned a producer, the write stores
\* that producer.
C9_ProducerKept ==
    [][\A id \in TaskIds :
          EnrichWrite(id) =>
            LET a == tasks[id].album_id
                loaded == tasks[id].snap[1].producer
            IN /\ (loaded # None /\ albums[a].producer = loaded)
                    => albums'[a].producer = loaded
               /\ (loaded = None /\ tasks[id].upd[1].producer # None)
                    => albums'[a].producer = tasks[id].upd[1].producer
      ]_vars

\* every element of the sequence s occurs in the sequence t
AllIn(s, t) == \A m \in 1..Len(s) : \E n \in 1..Len(t) : t[n] = s[m]

\* C10: whatever musician, personnel and detail links and whatever
\* non-empty producer the album has just before enrich_album's write, it
\* still has them just after it.
C10_NothingDeleted ==
    [][\A id \in TaskIds :
          EnrichWrite(id) =>
            LET a == tasks[id].album_id IN
            /\ AllIn(albums[a].musicians, albums'[a].musicians)
            /\ AllIn(albums[a].personnel, albums'[a].personnel)
            /\ AllIn(albums[a].other_details, albums'[a].other_details)
            /\ TruthyStr(albums[a].producer)
                  => albums'[a].producer = albums[a].producer
      ]_vars

(***************************************************************************)
(* What enrich_album reports to the job                                    *)
(***************************************************************************)
\* task id takes the step in which its call of enrich_album returns or
\* raises
EnrichReturn(id) ==
    /\ tasks[id].kind = "enrich"
    /\ tasks[id].pc \in {"load", "claude", "update"}
    /\ tasks'[id].pc \in {"unit", "finished"}

\* the producer of the album was set or one of its link lists grew
Enriched(old, new) ==
    \/ new.producer # old.producer
    \/ Len(new.musicians) > Len(old.musicians)
    \/ Len(new.personnel) > Len(old.personnel)
    \/ Len(new.other_details) > Len(old.other_details)

\* C11: when a call of enrich_album returns, the job counts the album as
\* enriched if and only if the call set the producer or made a link list
\* grow, and as skipped otherwise.
C11_TrueIffChanged ==
    [][\A id \in TaskIds :
          (EnrichReturn(id) /\ job'["enrich"].errors = job["enrich"].errors)
          => LET a == tasks[id].album_id
                 changed == /\ a \in 1..Len(albums)
                            /\ Enriched(albums[a], albums'[a])
             IN /\ (job'["enrich"].enriched = job["enrich"].enriched + 1)
                      <=> changed
                /\ ~changed
                      => job'["enrich"].skipped = job["enrich"].skipped + 1
      ]_vars

(***************************************************************************)
(* SpecMerge: one enrichment of an album whose link lists and whose        *)
(* credits returned by the model range over all short lists                *)
(***************************************************************************)
MergeEntries ==
    {Entry("Page", "Guitar"), Entry("page", "Guitar"), Entry("Page", "guitar"),
     Entry("Page", "Drums"), Entry("Bonham", "Drums")}

\* link lists an album can have: no (entity, qualifier) pair twice
StoredLists ==
    {e \in SeqsUpTo(MergeEntries, MaxCredits) : ~HasDuplicate(e)}

MergeRaws ==
    {[NoRaw EXCEPT !.kind = "data", !.musicians = new, !.personnel = new,
                   !.other_details = new] :
        new \in SeqsUpTo(MergeEntries, MaxCredits)}

InitMerge ==
    /\ InitControl
    /\ fs = <<>>
    /\ library = <<>>
    /\ \E e \in StoredLists :
          /\ albums = <<[StoredAlbum EXCEPT !.musicians = e, !.personnel = e,
                                           !.other_details = e]>>
          /\ musicians = CreateAll(<<>>, e)
          /\ persons = CreateAll(<<>>, e)
          /\ details = CreateAll(<<>>, e)
    /\ record_labels = <<>>
    /\ collection_albums = {<<1, 1>>}

StartMerge == tasks = <<>> /\ enrich_album_route(1)

NextMerge ==
    \/ StartMerge
    \/ EnrichStep(MergeRaws)

SpecMerge == InitMerge /\ [][NextMerge]_vars

(***************************************************************************)
(* The merges                                                              *)
(***************************************************************************)
\* the entries of new at the positions in keep, in order
Selected(new, keep) ==
    LET Kept(n) == n \in keep
        idx == SelectSeq([n \in 1..Len(new) |-> n], Kept)
    IN [m \in 1..Len(idx) |-> new[idx[m]]]

\* an enrichment task holds the model's output and the merged lists
Merging(id) == tasks[id].kind = "enrich" /\ tasks[id].pc = "update"

\* C12: the merged musician list is the existing list, unchanged and in
\* order, followed by exactly the incoming entries whose lower-cased name
\* is the lower-cased name of no existing entry and of no earlier incoming
\* entry (an earlier incoming entry of that name was appended or has an
\* existing name); the instrument plays no part.
C12_MusicianMerge ==
    \A id \in TaskIds :
        Merging(id) =>
          LET existing == tasks[id].snap[1].musicians
              new == tasks[id].raw[1].musicians
              Keep == {n \in 1..Len(new) :
                 /\ \A m \in 1..Len(existing) :
                       LowerStr(existing[m].name) # LowerStr(new[n].name)
                 /\ \A m \in 1..(n - 1) :
                       LowerStr(new[m].name) # LowerStr(new[n].name)}
          IN tasks[id].upd[1].musicians = Some(existing \o Selected(new, Keep))

\* Page (guitar) is linked; the model credits Page on drums, which is
\* dropped, and Bonham, who is appended
C12_Witness ==
    \E id \in TaskIds :
        /\ Merging(id)
        /\ tasks[id].snap[1].musicians = <<Entry("Page", "Guitar")>>
        /\ tasks[id].raw[1].musicians =
              <<Entry("Page", "Drums"), Entry("Bonham", "Drums")>>
        /\ tasks[id].upd[1].musicians =
              Some(<<Entry("Page", "Guitar"), Entry("Bonham", "Drums")>>)

\* the lower-cased (name, qualifier) pair of entry n of new is the pair of
\* no existing entry and of no earlier incoming entry
NewPair(existing, new, n) ==
    /\ \A m \in 1..Len(existing) :
          \/ LowerStr(existing[m].name) # LowerStr(new[n].name)
          \/ LowerStr(existing[m].qualifier) # LowerStr(new[n].qualifier)
    /\ \A m \in 1..(n - 1) :
          \/ LowerStr(new[m].name) # LowerStr(new[n].name)
          \/ LowerStr(new[m].qualifier) # LowerStr(new[n].qualifier)

\* C13: the merged personnel list (likewise the merged detail list) is the
\* existing list, unchanged and in order, followed by exactly the incoming
\* entries whose lower-cased (name, role) pair is the pair of no existing
\* entry and of no earlier incoming entry; a known name under a new role
\* is appended.
C13_PairMerge ==
    \A id \in TaskIds :
        Merging(id) =>
          LET snap == tasks[id].snap[1]
              raw == tasks[id].raw[1]
              KeepPerson == {n \in 1..Len(raw.personnel) :
                                NewPair(snap.personnel, raw.personnel, n)}
              KeepDetail == {n \in 1..Len(raw.other_details) :
                                NewPair(snap.other_details,
                                        raw.other_details, n)}
          IN /\ tasks[id].upd[1].personnel =
                   Some(snap.personnel \o Selected(raw.personnel, KeepPerson))
             /\ tasks[id].upd[1].other_details =
                   Some(snap.other_details
                        \o Selected(raw.other_details, KeepDetail))

\* Page (Guitar) is linked; the model returns the same pair in lower case,
\* which is dropped, and Page under Drums, which is appended
C13_Witness ==
    \E id \in TaskIds :
        /\ Merging(id)
        /\ tasks[id].snap[1].personnel = <<Entry("Page", "Guitar")>>
        /\ tasks[id].raw[1].personnel =
              <<Entry("page", "Guitar"), Entry("Page", "Drums")>>
        /\ tasks[id].upd[1].personnel =
              Some(<<Entry("Page", "Guitar"), Entry("Page", "Drums")>>)

(***************************************************************************)
(* Linked entities and link rows                                           *)
(***************************************************************************)
\* no two rows of the table have names that are equal up to letter case
OnePerName(table) ==
    \A m, n \in 1..Len(table) :
        LowerStr(table[m]) = LowerStr(table[n]) => m = n

\* C14: the catalog holds at most one musician, one person and one detail
\* entity per case-insensitive name.
C14_OneEntityPerName ==
    /\ OnePerName(musicians)
    /\ OnePerName(persons)
    /\ OnePerName(details)

\* no album has two links with the same entity and qualifier
LinksUnique ==
    \A a \in 1..Len(albums) :
        /\ ~HasDuplicate(albums[a].musicians)
        /\ ~HasDuplicate(albums[a].personnel)
        /\ ~HasDuplicate(albums[a].other_details)

\* the number of links of the list equal to entry e
Copies(list, e) == Cardinality({n \in 1..Len(list) : list[n] = e})

\* C15: no album ever has two links with the same entity and qualifier,
\* and after a request that replaces an album's musician (personnel,
\* detail) links the album has exactly one link for every entry the
\* request names, also for an entry it names twice.
C15_UniqueLinks ==
    [][/\ LinksUnique
       /\ LinksUnique'
       /\ (nreq' = nreq + 1 /\ last'.kind = "album")
          => LET a == last'.album_id
                 upd == last'.body
             IN /\ upd.musicians # None
                     => \A n \in 1..Len(upd.musicians[1]) :
                           Copies(albums'[a].musicians, upd.musicians[1][n]) = 1
                /\ upd.personnel # None
                     => \A n \in 1..Len(upd.personnel[1]) :
                           Copies(albums'[a].personnel, upd.personnel[1][n]) = 1
                /\ upd.other_details # None
                     => \A n \in 1..Len(upd.other_details[1]) :
                           Copies(albums'[a].other_details,
                                  upd.other_details[1][n]) = 1
      ]_vars

(***************************************************************************)
(* SpecMember: requests that add an album to a collection, while           *)
(* filesystem imports into collection 1 run                                *)
(***************************************************************************)
\* a directory whose tags match StoredAlbum
StoredDir == [PlainDir EXCEPT !.title = <<"b">>]

InitMember ==
    /\ InitControl
    /\ fs \in SeqsUpTo({PlainDir, StoredDir}, MaxDirs)
    /\ library = <<>>
    /\ albums = <<StoredAlbum>>
    /\ record_labels = <<>>
    /\ musicians = <<>>
    /\ persons = <<>>
    /\ details = <<>>
    /\ collection_albums \in {{}, {<<1, 1>>}}

StartFlacMember == Quiescent("flac") /\ start_import_flac("ok", Some(1))

AddAlbum ==
    \E cid \in {1, 2}, album_id \in {1, 2} :
        add_album_to_collection(cid, album_id)

AddAlbumCommit == \E h \in inflight : add_album_commit(h)

NextMember ==
    \/ StartFlacMember
    \/ Lookup
    \/ FlacStep
    \/ AddAlbum
    \/ AddAlbumCommit

SpecMember == InitMember /\ [][NextMember]_vars

\* C16: a request that adds an album to a collection that contains it is
\* answered with success and leaves the membership rows as they are, and
\* an import unit written to an album that its target collection contains
\* is not counted as an error and leaves the membership rows as they are:
\* the pair keeps its one row.
C16_MembershipIdempotent ==
    [][/\ (/\ nreq' = nreq + 1
           /\ last'.kind = "member"
           /\ <<last'.collection_id, last'.album_id>> \in collection_albums)
          => /\ last'.result = "added"
             /\ collection_albums' = collection_albums
       /\ \A id \in TaskIds :
             (/\ tasks[id].kind \in ImportKinds
              /\ tasks[id].pc = "write"
              /\ tasks'[id].pc = "post"
              /\ tasks[id].collection_id # None
              /\ <<tasks[id].collection_id[1], tasks'[id].album_id>>
                    \in collection_albums)
             => /\ collection_albums' = collection_albums
                /\ job'[tasks[id].kind].errors = job[tasks[id].kind].errors
      ]_vars

\* album 1 was added to collection 1, which contained it, after an import
\* into collection 1 had updated album 1
C16_Witness ==
    /\ last = [kind |-> "member", result |-> "added", collection_id |-> 1,
               album_id |-> 1]
    /\ inflight = {}
    /\ job["flac"].updated > 0
    /\ collection_albums = {<<1, 1>>}

(***************************************************************************)
(* Start requests and the life of a progress record                        *)
(***************************************************************************)
\* a step in which a start of kind k goes through: a task is created
Accepted(k) ==
    /\ Len(tasks') = Len(tasks) + 1
    /\ tasks'[Len(tasks')].kind = k

\* a job of kind k is under way
JobRunning(k) ==
    \/ job[k].status = "running"
    \/ \E id \in TaskIds : tasks[id].kind = k /\ Running(tasks[id])

\* C17: a start request that fails a precondition is rejected and leaves
\* the record of its kind as it was: a rejection changes no record and
\* creates no task, and a start goes through only for a root path that is
\* a directory and when no job of its kind is under way.
C17_RejectedUnchanged ==
    [][\A k \in Kinds :
          /\ (/\ nreq' = nreq + 1
              /\ last'.kind = k
              /\ last'.result \in {"bad_request", "not_authorized",
                                    "already_running"})
             => (job' = job /\ tasks' = tasks)
          /\ Accepted(k)
             => /\ ~JobRunning(k)
                /\ k = "flac" => tasks'[Len(tasks')].root_ok
      ]_vars

\* SpecFair: Spec with every suspended handler resumed and every task
\* step taken eventually (the event loop runs whatever is ready)
SpecFair ==
    /\ Spec
    /\ WF_vars(Lookup)
    /\ WF_vars(FlacStep)
    /\ WF_vars(EnrichStep(RaceRaws))

\* C18: a record in status "starting" or "running" eventually has a
\* terminal status.
C18_EventuallyTerminal ==
    \A k \in Kinds :
        (job[k].status \in {"starting", "running"})
            ~> (job[k].status \in Terminal)

\* the task of a filesystem import over an invalid root path takes its
\* first step
InvalidRootStep ==
    \E id \in TaskIds :
        /\ tasks[id].kind = "flac"
        /\ tasks[id].pc = "created"
        /\ ~tasks[id].root_ok
        /\ tasks'[id].pc = "finished"

\* C19: the status of an import record changes only to "starting" in a
\* step in which a start request has passed its checks, from "starting"
\* to "running", from
\* "running" to a terminal status, or from "starting" to "error" when a
\* filesystem import finds its root path invalid.
C19_StatusOrder ==
    [][\A k \in ImportKinds :
          job'[k].status # job[k].status
          => \/ /\ job'[k].status = "starting"
                /\ last'.kind = k
                /\ last'.result \in {"accepted", "server_error", "scheduled"}
             \/ /\ job[k].status = "starting"
                /\ job'[k].status = "running"
             \/ /\ job[k].status = "running"
                /\ job'[k].status \in Terminal
             \/ /\ k = "flac"
                /\ job[k].status = "starting"
                /\ job'[k].status = "error"
                /\ InvalidRootStep
      ]_vars

\* a fresh record: counters zero, no errors, no cancellation requested
FreshRecord(j) ==
    /\ j.status \in {"starting", "running"}
    /\ j.done = 0 /\ j.imported = 0 /\ j.updated = 0 /\ j.enriched = 0
    /\ j.skipped = 0 /\ j.errors = 0
    /\ j.error_list = <<>>
    /\ j.cancel_requested = FALSE

\* C20: a record with a terminal status does not change in any field
\* until it is replaced by a fresh record.
C20_TerminalFrozen ==
    [][\A k \in Kinds :
          (job[k].status \in Terminal /\ job'[k] # job[k])
          => FreshRecord(job'[k])
      ]_vars

(***************************************************************************)
(* SpecArt: a filesystem import and a library import of albums without     *)
(* art, the art resolver followed one await at a time, with cover uploads, *)
(* manual searches and the clock                                           *)
(***************************************************************************)
ArtDirs == {PlainDir, [PlainDir EXCEPT !.image_bytes = Some("img")]}

ArtItems == {PlainItem, [PlainItem EXCEPT !.image_bytes = None]}

InitArt ==
    /\ InitControl
    /\ fs \in {<<d>> : d \in ArtDirs}
    /\ library \in {<<d>> : d \in ArtItems}
    /\ albums = <<>>
    /\ record_labels = <<>>
    /\ musicians = <<>>
    /\ persons = <<>>
    /\ details = <<>>
    /\ collection_albums = {}

StartFlacArt == Quiescent("flac") /\ start_import_flac("ok", None)

\* a library import is started when none is under way
StartRoonArt ==
    /\ \A id \in TaskIds : tasks[id].kind = "roon" => tasks[id].pc = "finished"
    /\ run_import_roon(TRUE, None)

UploadArt == \E a \in {1, 9}, ext \in {"jpg", "png", "bmp"} : upload_art(a, ext)

ManualSearch == \E res \in {"found", "raise"} : search(res)

Clock == \E d \in {5, MB_MIN_INTERVAL} : Tick(d)

\* the steps of _mb_art_fallback
ResolverStep(k, id) ==
    \/ mb_wait(k, id)
    \/ mb_send(k, id)
    \/ \E res \in {"found", "none", "raise"} : mb_search(k, id, res)
    \/ \E res \in {"ok", "404", "transport"} : mb_download(k, id, res)
    \/ \E fails \in BOOLEAN : mb_commit(k, id, fails)

FlacArtStep ==
    \E id \in TaskIds :
        \/ flac_start(id)
        \/ flac_discover(id)
        \/ flac_scan(id)
        \/ find_existing("flac", id)
        \/ flac_write(id)
        \/ after_upsert("flac", id)
        \/ ResolverStep("flac", id)

RoonArtStep ==
    \E id \in TaskIds :
        \/ roon_start(id)
        \/ \E count \in ReportedCounts : roon_load_page(id, count)
        \/ roon_detail(id)
        \/ find_existing("roon", id)
        \/ roon_write(id)
        \/ after_upsert("roon", id)
        \/ ResolverStep("roon", id)

NextArt ==
    \/ StartFlacArt
    \/ StartRoonArt
    \/ UploadArt
    \/ ManualSearch
    \/ Clock
    \/ FlacArtStep
    \/ RoonArtStep

SpecArt == InitArt /\ [][NextArt]_vars

\* C21: any two searches sent to the metadata service, by either importer's
\* art fallback or by the manual search route, are at least
\* MB_MIN_INTERVAL apart.
C21_RateLimit ==
    \A m, n \in 1..Len(searches) :
        m < n => searches[n].at - searches[m].at >= MB_MIN_INTERVAL

\* task id's art fallback finishes its download or its store write
ResolverWrites(id) ==
    /\ tasks[id].pc \in {"mb_download", "mb_commit"}
    /\ tasks'[id].pc # tasks[id].pc

\* C22: the art fallback records an art path only on an album whose
\* art_path is still empty at the write: when a cover was uploaded while
\* the search or the download was in flight, the fallback's download and
\* store write leave the album's art_path and the uploaded file as they
\* are.
C22_UploadKept ==
    [][\A id \in TaskIds :
          LET a == tasks[id].album_id IN
          (ResolverWrites(id) /\ TruthyStr(albums[a].art_path))
             => /\ albums'[a].art_path = albums[a].art_path
                /\ \A f \in art_files :
                      (f.album_id = a /\ f.content = "upload")
                         => f \in art_files']_vars

(***************************************************************************)
(* SpecUnits: jobs run one at a time over units that are processed, are    *)
(* skipped, or fail in their scan, their store write or their collection   *)
(* link                                                                    *)
(***************************************************************************)
UnitDirs ==
    {PlainDir} \cup
    {[PlainDir EXCEPT !.fault = f] : f \in {"scan", "none_data", "store", "link"}}

UnitItems ==
    {PlainItem, [PlainItem EXCEPT !.title = <<>>],
     [PlainItem EXCEPT !.item_key = FALSE]} \cup
    {[PlainItem EXCEPT !.fault = f] : f \in {"scan", "store", "link"}}

\* a library listed in two pages: one item more than a page, none of
\* them importable (no title, or no item key)
LongLibrary ==
    [n \in 1..(PAGE_SIZE + 1) |->
        IF n % 2 = 0 THEN [PlainItem EXCEPT !.title = <<>>]
        ELSE [PlainItem EXCEPT !.item_key = FALSE]]

InitUnits ==
    /\ InitControl
    /\ \/ fs \in SeqsUpTo(UnitDirs, MaxDirs) /\ library = <<>>
       \/ fs = <<>> /\ library \in SeqsUpTo(UnitItems, MaxItems)
                                   \cup {LongLibrary}
    /\ albums \in {<<StoredAlbum>>, <<KnownAlbum, StoredAlbum>>}
    /\ record_labels = <<>>
    /\ musicians = <<>>
    /\ persons = <<>>
    /\ details = <<>>
    /\ collection_albums = {<<1, a>> : a \in 1..Len(albums)}

StartFlacUnits ==
    Idle /\ \E cid \in {None, Some(1)} : start_import_flac("ok", cid)

StartRoonUnits ==
    Idle /\ \E cid \in {None, Some(1)} : run_import_roon(TRUE, cid)

NextUnits ==
    \/ StartFlacUnits
    \/ StartRoonUnits
    \/ StartCollectionJob
    \/ Lookup
    \/ FlacStep
    \/ RoonStep
    \/ EnrichStepErrors

SpecUnits == InitUnits /\ [][NextUnits]_vars

\* the next step of task id raises inside the processing of its unit: in
\* the scan, in the select for the existing album, in the store write, in
\* the collection link, or in the enrichment of the album
Raises(id) ==
    LET t == tasks[id] IN
    CASE t.kind \in ImportKinds ->
           LET d == Unit(t) IN
           \/ /\ t.pc = "scan"
              /\ d.fault = "scan"
              /\ t.kind = "roon" => (d.title # <<>> /\ d.item_key)
           \/ /\ t.pc = "find"
              /\ Cardinality(Matches(albums, d.title, d.artist)) > 1
           \/ /\ t.pc = "write"
              /\ (d.fault = "store" \/ LinkFails(d, t))
      [] t.kind = "enrich" /\ t.variant # "album" ->
           \/ /\ t.pc = "claude"
              /\ albums[t.album_id].title # KnownAlbum.title
           \/ /\ t.pc = "update"
              /\ UpdateRaises(t.upd[1])
      [] OTHER -> FALSE

\* C23: a step in which the processing of a unit raises adds one to errors
\* and one to done, appends one message, does not set status "error" and
\* goes on to the next unit when there is one, else to status "done"; so a
\* job all of whose units fail ends "done" with done = total.
C23_UnitErrorIsolated ==
    [][\A id \in TaskIds :
          (Raises(id) /\ tasks'[id] # tasks[id]) =>
             LET k == tasks[id].kind
                 t == tasks[id]
             IN /\ job'[k].errors = job[k].errors + 1
                /\ job'[k].done = job[k].done + 1
                /\ job'[k].error_list # <<>>
                /\ job'[k].error_list[Len(job'[k].error_list)] = <<"unit", t.i>>
                /\ Len(job'[k].error_list) =
                      IF Len(job[k].error_list) >= ERROR_LIST_MAX
                      THEN ERROR_LIST_MAX ELSE Len(job[k].error_list) + 1
                /\ job'[k].status # "error"
                /\ IF t.i < t.n
                   THEN /\ job'[k].status = "running"
                        /\ tasks'[id].i = t.i + 1
                        /\ tasks'[id].pc \in {"scan", "unit"}
                   ELSE /\ job'[k].status = "done"
                        /\ job'[k].done = job'[k].total
                        /\ job'[k].errors <= job'[k].total]_vars

\* a filesystem import of two or more directories, the first failing in
\* its store write, has ended "done" with every unit counted as an error
C23_Witness ==
    /\ Len(fs) >= 2
    /\ fs[1].fault = "store"
    /\ job["flac"].status = "done"
    /\ job["flac"].errors = Len(fs)
    /\ job["flac"].done = job["flac"].total
    /\ Len(job["flac"].error_list) = Len(fs)

\* where a task is while it is inside _mb_art_fallback
ResolverPcs == {"mb", "mb_sleep", "mb_search", "mb_download", "mb_commit"}

\* no other writer has changed the art path of the album task t selected
\* since the select
Unwritten(t) ==
    t.existing # None
       => albums[t.existing[1].id].art_path = t.existing[1].art_path

\* C24: the art fallback is entered for a unit exactly when the upsert
\* left the album without art (the album as the upsert selected and wrote
\* it); whatever happens inside it (the search
\* raises or finds nothing, the download answers 404 or fails, the store
\* write raises) the errors counter and the error list do not change, the
\* unit keeps its count as imported or updated, and the unit ends counted
\* in done.
C24_SoftFallback ==
    [][\A id \in TaskIds :
          LET t == tasks[id]
              k == t.kind
          IN (k \in ImportKinds /\ tasks'[id] # t) =>
             /\ (t.pc = "write" /\ tasks'[id].pc = "post" /\ Unwritten(t))
                   => tasks'[id].has_art =
                         TruthyStr(albums'[tasks'[id].album_id].art_path)
             /\ t.pc = "post"
                   => /\ (tasks'[id].pc = "mb") = ~t.has_art
                      /\ searches' = searches
             /\ t.pc \in ResolverPcs
                   => /\ job'[k].errors = job[k].errors
                      /\ job'[k].error_list = job[k].error_list
                      /\ job'[k].imported = job[k].imported
                      /\ job'[k].updated = job[k].updated
                      /\ job'[k].status # "error"
                      /\ tasks'[id].pc \notin ResolverPcs
                            => /\ job'[k].done = job[k].done + 1
                               /\ job'[k].done =
                                     job'[k].imported + job'[k].updated
                                     + job'[k].skipped + job'[k].errors]_vars

\* a filesystem import of one directory without art has ended: the search
\* was sent, no art was recorded, and the unit counts as imported, not as
\* an error
C24_Witness ==
    /\ job["flac"].status = "done"
    /\ job["flac"].imported = 1
    /\ job["flac"].errors = 0
    /\ job["flac"].error_list = <<>>
    /\ \E n \in 1..Len(searches) : searches[n].by = "flac"
    /\ \E a \in 1..Len(albums) : albums[a].art_path = None

\* task id of the library importer has listed every page
ListingComplete(id) ==
    /\ tasks[id].kind = "roon"
    /\ tasks[id].pc \in {"scan", "find", "write", "post", "mb"}

\* C25: in a library import, once the listing is complete the total is the
\* number of items listed over all pages, whatever total the service
\* reported; a listed item without a title or without an item key adds one
\* to done and one to skipped and touches neither the store nor a file; a
\* job that ends "done" has done = total.
C25_ListedTotal ==
    [][/\ \A id \in TaskIds :
             ListingComplete(id)' =>
                /\ job'["roon"].total = Len(library)
                /\ job'["roon"].done = tasks'[id].i - 1
       /\ \A id \in TaskIds :
             LET t == tasks[id] IN
             (/\ t.kind = "roon"
              /\ t.pc = "scan"
              /\ tasks'[id] # t
              /\ (library[t.i].title = <<>> \/ ~library[t.i].item_key))
                 => /\ job'["roon"].done = job["roon"].done + 1
                    /\ job'["roon"].skipped = job["roon"].skipped + 1
                    /\ job'["roon"].imported = job["roon"].imported
                    /\ job'["roon"].updated = job["roon"].updated
                    /\ job'["roon"].errors = job["roon"].errors
                    /\ UNCHANGED <<albums, record_labels, collection_albums,
                                   catalog, art_files>>
       /\ job'["roon"].status = "done"
                => job'["roon"].done = job'["roon"].total]_vars

\* a library of more than one page, none of its items importable, has been
\* imported: every listed item is counted, as skipped
C25_Witness ==
    /\ Len(library) > PAGE_SIZE
    /\ job["roon"].status = "done"
    /\ job["roon"].total = Len(library)
    /\ job["roon"].done = Len(library)
    /\ job["roon"].skipped = Len(library)
    /\ albums \in {<<StoredAlbum>>, <<KnownAlbum, StoredAlbum>>}

\* the four outcome counters of an import record
Outcomes(j) == j.imported + j.updated + j.skipped + j.errors

\* the task of import kind k is between two units: at the top of its loop,
\* before its first unit, or returned
BetweenUnits(k) ==
    /\ \E id \in TaskIds : tasks[id].kind = k /\ tasks[id].pc # "created"
    /\ tasks[JobTask(k)].pc \in {"discover", "page", "scan", "finished"}
    /\ job[k].status \in {"running", "done"}

\* C30: between two units of an import job done = imported + updated +
\* skipped + errors, and done <= total in every state; a step adds at most
\* one to done and at most one to the four outcome counters together, a
\* unit that ends has added exactly one to done and one to one of them,
\* and no counter decreases while the job runs.
C30_CounterAccounting ==
    [][\A k \in ImportKinds :
          /\ job'[k].done <= job'[k].total
          /\ BetweenUnits(k)' =>
                /\ job'[k].done = Outcomes(job'[k])
                /\ tasks'[JobTask(k)'].pc = "scan"
                      => job'[k].done = tasks'[JobTask(k)'].i - 1
          /\ job'[k].status # "starting" =>
                /\ job'[k].done \in {job[k].done, job[k].done + 1}
                /\ Outcomes(job'[k]) \in {Outcomes(job[k]), Outcomes(job[k]) + 1}
                /\ job'[k].imported >= job[k].imported
                /\ job'[k].updated >= job[k].updated
                /\ job'[k].skipped >= job[k].skipped
                /\ job'[k].errors >= job[k].errors]_vars

\* a filesystem import of two directories has ended with one unit skipped
\* and one counted as an error
C30_Witness ==
    /\ job["flac"].status = "done"
    /\ job["flac"].total = 2
    /\ job["flac"].done = 2
    /\ job["flac"].skipped = 1
    /\ job["flac"].errors = 1
    /\ job["flac"].imported + job["flac"].updated = 0

\* C29: when a filesystem import and a library import run at the same time
\* and both come upon the same case-insensitive (title, artist), not yet in
\* the catalog, the album store gets one album for the pair: no two
\* albums have the same lower-cased title and artist.
C29_OneAlbumPerPair ==
    \A a, b \in 1..Len(albums) :
        (/\ LowerText(albums[a].title) = LowerText(albums[b].title)
         /\ LowerText(albums[a].artist) = LowerText(albums[b].artist))
            => a = b

(***************************************************************************)
(* SpecRows: collection enrichments, one at a time, while albums are added *)
(* to and removed from the collection                                      *)
(***************************************************************************)
\* three albums; their order by title (a, b, c) is not their order by id
RowAlbums ==
    <<[StoredAlbum EXCEPT !.title = <<"b">>], [StoredAlbum EXCEPT !.title = <<"a">>],
      [StoredAlbum EXCEPT !.title = <<"c">>]>>

InitRows ==
    /\ InitControl
    /\ fs = <<>>
    /\ library = <<>>
    /\ albums = RowAlbums
    /\ record_labels = <<>>
    /\ musicians = <<>>
    /\ persons = <<>>
    /\ details = <<>>
    /\ collection_albums \in {{<<1, 1>>, <<1, 2>>}, {<<1, 1>>, <<1, 2>>, <<1, 3>>}}

RemoveAlbum ==
    \E cid \in {1, 2}, album_id \in {1, 3} :
        remove_album_from_collection(cid, album_id)

AddAlbumRows == \E album_id \in {1, 3} : add_album_to_collection(1, album_id)

NextRows ==
    \/ StartCollectionJob
    \/ Lookup
    \/ EnrichStep(RaceRaws)
    \/ AddAlbumRows
    \/ AddAlbumCommit
    \/ RemoveAlbum

SpecRows == InitRows /\ [][NextRows]_vars

\* task t of a collection enrichment has read its rows and not returned
InLoop(t) ==
    /\ t.kind = "enrich"
    /\ t.variant = "collection"
    /\ t.pc \in {"unit", "load", "claude", "update"}

\* rows lists the members of collection cid once each, by title
TitleOrdered(rows, cid) ==
    /\ {rows[n] : n \in 1..Len(rows)} =
          {a \in 1..Len(albums) : <<cid, a>> \in collection_albums}
    /\ \A m, n \in 1..Len(rows) :
          m < n => /\ rows[m] # rows[n]
                   /\ ~TextLess(albums[rows[n]].title, albums[rows[m]].title)

\* C28: in a collection enrichment the total is set once, to the length of
\* the title-ordered list of the collection's albums read before any album
\* is processed; afterwards, whatever is added to or removed from the
\* collection, the list and the total do not change, the albums are taken
\* one at a time in the order of the list, and done never exceeds total.
C28_TotalFixed ==
    [][\A id \in TaskIds :
          LET t == tasks[id]
              u == tasks'[id]
          IN /\ (t.kind = "enrich" /\ t.pc = "rows" /\ u # t)
                   => /\ TitleOrdered(u.rows, t.collection_id[1])
                      /\ job'["enrich"].total = Len(u.rows)
                      /\ job'["enrich"].done = 0
             /\ InLoop(t)
                   => /\ u.rows = t.rows
                      /\ job'["enrich"].total = Len(t.rows)
                      /\ job'["enrich"].done <= job'["enrich"].total
                      /\ job'["enrich"].done \in
                            {job["enrich"].done, job["enrich"].done + 1}
                      /\ InLoop(u)
                            => /\ job'["enrich"].done = u.i - 1
                               /\ u.pc # "unit" => u.album_id = t.rows[u.i]
                      /\ u.pc = "finished"
                            => job'["enrich"].done = Len(t.rows)]_vars

\* a collection enrichment is past its first album, its list and total
\* are those of the start, and the collection has changed since
C28_Witness ==
    \E id \in TaskIds :
        /\ InLoop(tasks[id])
        /\ job["enrich"].done >= 1
        /\ job["enrich"].total = Len(tasks[id].rows)
        /\ {tasks[id].rows[n] : n \in 1..Len(tasks[id].rows)} #
              {a \in 1..Len(albums) : <<1, a>> \in collection_albums}

(***************************************************************************)
(* SpecCancel: filesystem imports and enrichments of both variants, each   *)
(* kind's starts issued one after the other, with cancel requests at any   *)
(* moment                                                                  *)
(***************************************************************************)
CancelKinds == {"flac", "enrich"}

NextCancel ==
    \/ StartFlac(TRUE)
    \/ StartEnrichAlbum(TRUE)
    \/ StartEnrichCollection(TRUE)
    \/ Lookup
    \/ Cancel(CancelKinds)
    \/ FlacStep
    \/ EnrichStep(RaceRaws)

SpecCancel == InitSeq /\ [][NextCancel]_vars

\* the step takes task t (u after the step) to the top of the loop with a
\* unit left: the per-unit cancellation check is made in this step
AtCheck(t, u) ==
    /\ u # t
    /\ t.pc # "finished"
    /\ t.pc \in {"discover", "rows"} \/ u.i # t.i
    /\ u.i <= u.n

\* C26: a cancel request made after a start of its kind was accepted and
\* before the job's last per-unit check is never lost: while the job's
\* task has not returned no step clears the flag, and the next per-unit
\* check sees it, starts no further unit and ends the job "cancelled".
C26_CancelNeverLost ==
    [][\A id \in TaskIds :
          LET t == tasks[id]
              u == tasks'[id]
              k == t.kind
          IN (k \in CancelKinds /\ t.pc # "finished"
                 /\ job[k].cancel_requested)
                => /\ job'[k].cancel_requested
                   /\ AtCheck(t, u)
                         => /\ job'[k].status = "cancelled"
                            /\ u.pc = "finished"]_vars

(***************************************************************************)
(* SpecSnap: filesystem imports and collection enrichments, each kind's    *)
(* starts issued one after the other, polled for progress at any moment    *)
(***************************************************************************)
SnapKinds == {"flac", "enrich"}

GetProgress == \E k \in SnapKinds : get_progress(k)

NextSnap ==
    \/ StartFlac(TRUE)
    \/ StartEnrichCollection(TRUE)
    \/ Lookup
    \/ FlacStep
    \/ EnrichStep(RaceRaws)
    \/ GetProgress

SpecSnap == InitSeq /\ [][NextSnap]_vars

\* the list that snapshot s shows as its "error_list" is the list the
\* record of its kind holds now
SharesList(s, j) == j[s.kind].list_id = s.copy.list_id

\* C27: a snapshot returned by get_progress is isolated from the live
\* record: once returned it stays as it is, and no later job step and no
\* later start changes any of its fields, its error list included.
C27_SnapshotIsolated ==
    [][\A s \in snapshots :
          /\ s \in snapshots'
          /\ (SharesList(s, job) /\ SharesList(s, job'))
                => job'[s.kind].error_list = job[s.kind].error_list]_vars
====
